---- MODULE Spec2Model ----
(***************************************************************************)
(* Model of middleware/idp/middleware.go: the HTTP handlers of the SAML    *)
(* identity-provider middleware (ServeMetadata and ServeSSO).              *)
(*                                                                         *)
(* Strings and byte slices are sequences of byte values (ASCII codes), so  *)
(* that the encodings the handlers apply (base64, raw DEFLATE, XML, the    *)
(* template substitution) are computed and not assumed.                    *)
(***************************************************************************)
EXTENDS Integers, Sequences, FiniteSets, TLC

(***************************************************************************)
(* Byte-string helpers.                                                    *)
(***************************************************************************)
RECURSIVE ConcatRange(_, _, _)
\* The concatenation of ss[lo], ..., ss[hi], by halves.
ConcatRange(ss, lo, hi) ==
    IF lo > hi THEN <<>>
    ELSE IF lo = hi THEN ss[lo]
    ELSE ConcatRange(ss, lo, (lo + hi) \div 2) \o ConcatRange(ss, (lo + hi) \div 2 + 1, hi)

\* bytes.Join with no separator: the concatenation of a sequence of strings
\* (ss is bound to its value once).
Concat(ss) == CHOOSE r \in { ConcatRange(v, 1, Len(v)) : v \in {ss} } : TRUE

\* s[from..] (the empty string when from is past the end).
Drop(s, n) == SubSeq(s, n + 1, Len(s))

\* s[..n]
Take(s, n) == SubSeq(s, 1, n)

\* The number of positions of q that hold x.
Count(q, x) == Cardinality({i \in 1..Len(q) : q[i] = x})

\* strings.Contains(s, sub)
Contains(s, sub) ==
    \E i \in 1..(Len(s) - Len(sub) + 1) : SubSeq(s, i, i + Len(sub) - 1) = sub

(***************************************************************************)
(* encoding/base64, StdEncoding (RFC 4648 alphabet, '=' padding).          *)
(***************************************************************************)
\* The character of the standard alphabet that encodes the 6-bit value v.
B64Char(v) ==
    IF v < 26 THEN 65 + v
    ELSE IF v < 52 THEN 97 + (v - 26)
    ELSE IF v < 62 THEN 48 + (v - 52)
    ELSE IF v = 62 THEN 43
    ELSE 47

\* The 6-bit value of character c, or -1 when c is not in the alphabet.
B64Val(c) ==
    IF c >= 65 /\ c <= 90 THEN c - 65
    ELSE IF c >= 97 /\ c <= 122 THEN c - 97 + 26
    ELSE IF c >= 48 /\ c <= 57 THEN c - 48 + 52
    ELSE IF c = 43 THEN 62
    ELSE IF c = 47 THEN 63
    ELSE -1

B64Pad == 61

\* base64.StdEncoding.EncodeToString(src): character i of the output.  Each
\* group of three bytes gives four characters; a last group of one or two
\* bytes is padded with '='.
EncodeToString(src) ==
    LET n     == Len(src)
        at(j) == IF j <= n THEN src[j] ELSE 0
    IN  [i \in 1..(4 * ((n + 2) \div 3)) |->
            LET g  == (i - 1) \div 4
                k  == (i - 1) % 4
                b1 == at(3 * g + 1)
                b2 == at(3 * g + 2)
                b3 == at(3 * g + 3)
            IN  CASE k = 0 -> B64Char(b1 \div 4)
                  [] k = 1 -> B64Char((b1 % 4) * 16 + b2 \div 16)
                  [] k = 2 -> IF 3 * g + 2 > n THEN B64Pad
                              ELSE B64Char((b2 % 16) * 4 + b3 \div 64)
                  [] k = 3 -> IF 3 * g + 3 > n THEN B64Pad
                              ELSE B64Char(b3 % 64)]

NoErr == "nil"

\* The decoding of base64.Encoding.decodeQuantum over the input with the
\* ignored line breaks removed: four characters give three bytes; the last
\* quantum may end in one or two padding characters; a character outside
\* the alphabet, misplaced padding, a short quantum or input after the
\* padding is a CorruptInputError.
DecodeQuantum(s) ==
    LET n    == Len(s)
        q    == n \div 4
        ok(i) == B64Val(s[i]) >= 0
        full(g) == ok(4 * g + 1) /\ ok(4 * g + 2) /\ ok(4 * g + 3) /\ ok(4 * g + 4)
        pad2 == q > 0 /\ ok(n - 3) /\ ok(n - 2) /\ s[n - 1] = B64Pad /\ s[n] = B64Pad
        pad1 == q > 0 /\ ok(n - 3) /\ ok(n - 2) /\ ok(n - 1) /\ s[n] = B64Pad
        pads == IF pad2 THEN 2 ELSE IF pad1 THEN 1 ELSE 0
        val(i) == IF ok(i) THEN B64Val(s[i]) ELSE 0
    IN  IF \/ n % 4 # 0
           \/ \E g \in 0..(q - 2) : ~full(g)
           \/ q > 0 /\ ~(full(q - 1) \/ pad1 \/ pad2)
        THEN [err |-> "base64.CorruptInputError", data |-> <<>>]
        ELSE [err  |-> NoErr,
              data |-> [j \in 1..(3 * q - pads) |->
                           LET g == (j - 1) \div 3
                               k == (j - 1) % 3
                               a == val(4 * g + 1)
                               b == val(4 * g + 2)
                               c == val(4 * g + 3)
                               d == val(4 * g + 4)
                           IN  CASE k = 0 -> a * 4 + b \div 16
                                 [] k = 1 -> (b % 16) * 16 + c \div 4
                                 [] k = 2 -> (c % 4) * 64 + d]]

IsLineBreak(c) == c = 10 \/ c = 13

\* base64.RawStdEncoding.DecodeString(s): the encoding without padding, to
\* which a '=' is corrupt input.
DecodeStringRaw(s) ==
    IF \E i \in 1..Len(s) : s[i] = B64Pad
    THEN [err |-> "base64.CorruptInputError", data |-> <<>>]
    ELSE DecodeQuantum(SelectSeq(s, LAMBDA c : ~IsLineBreak(c)))

\* base64.StdEncoding.DecodeString(s): '\r' and '\n' are ignored.
DecodeString(s) ==
    DecodeQuantum(SelectSeq(s, LAMBDA c : ~IsLineBreak(c)))

(***************************************************************************)
(* compress/flate (RFC 1951).  The streams of the model consist of stored  *)
(* blocks (BTYPE 00) and of blocks with the reserved type (BTYPE 11);      *)
(* Huffman-coded blocks are outside the inputs the model draws.            *)
(***************************************************************************)
RECURSIVE InflateBlocks(_)
\* ioutil.ReadAll(flate.NewReader(r)): the block loop of the decompressor.
\* Running out of input anywhere before the end of the final block is
\* io.ErrUnexpectedEOF, a LEN/NLEN mismatch or a reserved block type is a
\* CorruptInputError; bytes after the final block are not read.
InflateBlocks(s) ==
    IF Len(s) = 0 THEN [err |-> "unexpected EOF", buf |-> <<>>]
    ELSE
        LET final == s[1] % 2
            btype == (s[1] \div 2) % 4
        IN  CASE btype = 3 -> [err |-> "flate.CorruptInputError", buf |-> <<>>]
              [] btype = 0 ->
                    IF Len(s) < 5 THEN [err |-> "unexpected EOF", buf |-> <<>>]
                    ELSE
                        LET n  == s[2] + 256 * s[3]
                            nn == s[4] + 256 * s[5]
                        IN  IF nn # 65535 - n THEN
                                [err |-> "flate.CorruptInputError", buf |-> <<>>]
                            ELSE IF Len(s) < 5 + n THEN
                                [err |-> "unexpected EOF", buf |-> Drop(s, 5)]
                            ELSE IF final = 1 THEN
                                [err |-> NoErr, buf |-> SubSeq(s, 6, 5 + n)]
                            ELSE
                                LET rest == InflateBlocks(Drop(s, 5 + n))
                                IN  [err |-> rest.err,
                                     buf |-> SubSeq(s, 6, 5 + n) \o rest.buf]

\* A raw DEFLATE stream of d: one final stored block.
StoredDeflate(d) ==
    << 1, Len(d) % 256, Len(d) \div 256,
       255 - (Len(d) % 256), 255 - (Len(d) \div 256) >> \o d

(***************************************************************************)
(* encoding/xml.                                                           *)
(***************************************************************************)
\* The replacement xml.EscapeText writes for byte c.
XMLEscapeByte(c) ==
    CASE c = 34 -> <<38, 35, 51, 52, 59>>        \* &#34;
      [] c = 39 -> <<38, 35, 51, 57, 59>>        \* &#39;
      [] c = 38 -> <<38, 97, 109, 112, 59>>      \* &amp;
      [] c = 60 -> <<38, 108, 116, 59>>          \* &lt;
      [] c = 62 -> <<38, 103, 116, 59>>          \* &gt;
      [] c = 9  -> <<38, 35, 120, 57, 59>>       \* &#x9;
      [] c = 10 -> <<38, 35, 120, 65, 59>>       \* &#xA;
      [] c = 13 -> <<38, 35, 120, 68, 59>>       \* &#xD;
      [] OTHER  -> <<c>>

\* xml.EscapeText(s)
XMLEscape(s) == Concat([i \in 1..Len(s) |-> XMLEscapeByte(s[i])])

\* depth copies of the indent string "\t".
Indent(depth) == [i \in 1..depth |-> 9]

\* The attributes of a start tag:  name="value" each preceded by a space.
MarshalAttrs(attrs) ==
    Concat([i \in 1..Len(attrs) |->
              <<32>> \o attrs[i].name \o <<61, 34>> \o XMLEscape(attrs[i].value) \o <<34>>])

RECURSIVE MarshalElement(_, _, _)
\* The printer of xml.MarshalIndent(v, "", "\t") on an element: every start
\* tag but the first starts a new line indented by its depth; an end tag is
\* put on a line of its own only after child elements.
MarshalElement(el, depth, first) ==
    (IF first THEN <<>> ELSE <<10>> \o Indent(depth))
    \o <<60>> \o el.name \o MarshalAttrs(el.attrs) \o <<62>>
    \o (IF el.kids # <<>>
        THEN Concat([i \in 1..Len(el.kids) |-> MarshalElement(el.kids[i], depth + 1, FALSE)])
             \o <<10>> \o Indent(depth)
        ELSE XMLEscape(el.text))
    \o <<60, 47>> \o el.name \o <<62>>

\* xml.MarshalIndent(v, "", "\t") for a value whose element tree is el.
MarshalIndent(el) == CHOOSE r \in { MarshalElement(v, 0, TRUE) : v \in {el} } : TRUE

IsSpace(c) == c \in {32, 9, 10, 13}

IsNameByte(c) ==
    \/ c >= 65 /\ c <= 90
    \/ c >= 97 /\ c <= 122
    \/ c >= 48 /\ c <= 57
    \/ c \in {95, 58, 45, 46}

RECURSIVE SkipSpace(_, _)
\* Decoder.space: the first position at or after i that holds no white space.
SkipSpace(s, i) ==
    CHOOSE r \in { IF n <= Len(s) /\ IsSpace(s[n]) THEN SkipSpace(s, n + 1) ELSE n
                   : n \in {i} } : TRUE

RECURSIVE ScanName(_, _)
\* Decoder.name: the position after the name that starts at i.
ScanName(s, i) ==
    CHOOSE r \in { IF n <= Len(s) /\ IsNameByte(s[n]) THEN ScanName(s, n + 1) ELSE n
                   : n \in {i} } : TRUE

RECURSIVE IndexFrom(_, _, _)
\* The first position at or after i that holds c, Len(s)+1 when there is none.
IndexFrom(s, i, c) ==
    CHOOSE r \in { IF n <= Len(s) /\ s[n] # b THEN IndexFrom(s, n + 1, b) ELSE n
                   : n \in {i}, b \in {c} } : TRUE

XMLSyntaxError == "xml.SyntaxError"

\* The value of a digit of a character reference in the given base, -1 for
\* a byte that is no digit of it.
DigitVal(c, base) ==
    IF c \in 48..57 THEN c - 48
    ELSE IF base = 16 /\ c \in 97..102 THEN c - 87
    ELSE IF base = 16 /\ c \in 65..70 THEN c - 55
    ELSE -1

RECURSIVE NumVal(_, _, _)
\* The number the digits ds spell in the base, -1 when one is no digit.
NumVal(ds, base, acc) ==
    IF ds = <<>> THEN acc
    ELSE IF DigitVal(ds[1], base) < 0 THEN -1
    ELSE NumVal(Tail(ds), base, acc * base + DigitVal(ds[1], base))

\* The character of the reference &#N; or &#xN; whose text between '&' and
\* ';' is ent: -1 when it is malformed or names no XML character.
CharRef(ent) ==
    LET hex == Len(ent) >= 2 /\ ent[2] = 120
        ds  == IF hex THEN Drop(ent, 2) ELSE Drop(ent, 1)
        n   == IF ds = <<>> THEN -1 ELSE NumVal(ds, IF hex THEN 16 ELSE 10, 0)
    IN  IF n \in {9, 10, 13} \cup (32..127) THEN n ELSE -1

RECURSIVE XMLUnescape(_)
\* The entity expansion of Decoder.text for the five predefined entities
\* and for character references; err is set for '<' and for an '&' that
\* starts none of them.
XMLUnescape(s) ==
    IF s = <<>> THEN [err |-> NoErr, text |-> <<>>]
    ELSE IF s[1] = 60 THEN [err |-> XMLSyntaxError, text |-> <<>>]
    ELSE IF s[1] # 38 THEN
        LET rest == XMLUnescape(Tail(s))
        IN  [err |-> rest.err, text |-> <<s[1]>> \o rest.text]
    ELSE
        LET semi == IndexFrom(s, 1, 59)
            ent  == SubSeq(s, 2, semi - 1)
            char == CASE ent = <<108, 116>> -> 60
                      [] ent = <<103, 116>> -> 62
                      [] ent = <<97, 109, 112>> -> 38
                      [] ent = <<97, 112, 111, 115>> -> 39
                      [] ent = <<113, 117, 111, 116>> -> 34
                      [] ent # <<>> /\ ent[1] = 35 -> CharRef(ent)
                      [] OTHER -> -1
        IN  IF semi > Len(s) \/ char < 0 THEN [err |-> XMLSyntaxError, text |-> <<>>]
            ELSE LET rest == XMLUnescape(Drop(s, semi))
                 IN  [err |-> rest.err, text |-> <<char>> \o rest.text]

RECURSIVE ParseAttrs(_, _, _)
\* The attribute loop of Decoder.rawToken after the element name: reads
\* name="value" pairs up to '>' or '/>'.  next is the position after the
\* tag, empty tells a self-closing tag.
ParseAttrs(s, i, acc) ==
    LET j == SkipSpace(s, i)
        bad == [err |-> XMLSyntaxError, attrs |-> acc, next |-> j, empty |-> FALSE]
    IN  IF j > Len(s) THEN bad
        ELSE IF s[j] = 47 THEN
            IF j + 1 <= Len(s) /\ s[j + 1] = 62
            THEN [err |-> NoErr, attrs |-> acc, next |-> j + 2, empty |-> TRUE]
            ELSE bad
        ELSE IF s[j] = 62 THEN
            [err |-> NoErr, attrs |-> acc, next |-> j + 1, empty |-> FALSE]
        ELSE
            LET k  == ScanName(s, j)
                eq == SkipSpace(s, k)
                q  == SkipSpace(s, eq + 1)
                qe == IF q <= Len(s) THEN IndexFrom(s, q + 1, s[q]) ELSE q
                v  == IF q <= Len(s) THEN XMLUnescape(SubSeq(s, q + 1, qe - 1))
                      ELSE [err |-> XMLSyntaxError, text |-> <<>>]
            IN  IF \/ k = j
                   \/ eq > Len(s) \/ s[eq] # 61
                   \/ q > Len(s) \/ s[q] \notin {34, 39}
                   \/ qe > Len(s)
                   \/ v.err # NoErr
                THEN bad
                ELSE CHOOSE r \in { ParseAttrs(s, n, a) :
                                       n \in {qe + 1},
                                       a \in {Append(acc, [name  |-> SubSeq(s, j, k - 1),
                                                            value |-> v.text])} } : TRUE

\* The first element of document s as xml.Unmarshal reads it: character data
\* before the start tag is skipped, the element is read up to its end tag,
\* and nothing after it is read.  The documents of the model are a single
\* element holding attributes and character data; io.EOF is the error of a
\* document without any start tag.
ParseElement(s) ==
    LET lt == IndexFrom(s, 1, 60)
        nm == ScanName(s, lt + 1)
        bad(e) == [err |-> e, name |-> <<>>, attrs |-> <<>>]
    IN  IF lt > Len(s) THEN bad("EOF")
        ELSE IF nm = lt + 1 THEN bad(XMLSyntaxError)
        ELSE CHOOSE r \in
            { IF st.err # NoErr THEN bad(st.err)
              ELSE IF st.empty THEN
                  [err |-> NoErr, name |-> SubSeq(s, lt + 1, nm - 1), attrs |-> st.attrs]
              ELSE
                  LET close == IndexFrom(s, st.next, 60)
                      cn    == ScanName(s, close + 2)
                      gt    == SkipSpace(s, cn)
                      txt   == XMLUnescape(SubSeq(s, st.next, close - 1))
                  IN  IF \/ close + 1 > Len(s) \/ s[close + 1] # 47
                         \/ SubSeq(s, close + 2, cn - 1) # SubSeq(s, lt + 1, nm - 1)
                         \/ gt > Len(s) \/ s[gt] # 62
                         \/ txt.err # NoErr
                      THEN bad(XMLSyntaxError)
                      ELSE [err |-> NoErr, name |-> SubSeq(s, lt + 1, nm - 1),
                            attrs |-> st.attrs]
              : st \in {ParseAttrs(s, nm, <<>>)} } : TRUE

\* The value of the attribute called name, "" when the element has none.
AttrValue(attrs, name) ==
    IF \E i \in 1..Len(attrs) : attrs[i].name = name
    THEN attrs[CHOOSE i \in 1..Len(attrs) :
                 /\ attrs[i].name = name
                 /\ \A k \in 1..(i - 1) : attrs[k].name # name].value
    ELSE <<>>

\* The zero value of saml.AuthnRequest (var authnRequest saml.AuthnRequest).
ZeroAuthnRequest == [ID |-> <<>>, Version |-> <<>>]

\* xml.Unmarshal(buf, &authnRequest): the attributes ID and Version of the
\* first element are stored into the request.
Unmarshal(buf) ==
    CHOOSE r \in
        { IF el.err # NoErr THEN [err |-> el.err, v |-> ZeroAuthnRequest]
          ELSE [err |-> NoErr,
                v   |-> [ID      |-> AttrValue(el.attrs, <<73, 68>>),
                         Version |-> AttrValue(el.attrs, <<86, 101, 114, 115, 105, 111, 110>>)]]
          : el \in {ParseElement(buf)} } : TRUE

(***************************************************************************)
(* text/template and the redirect form.                                    *)
(***************************************************************************)
TText(b)   == [node |-> "text",  text |-> b,    field |-> ""]
TField(f)  == [node |-> "field", text |-> <<>>, field |-> f]
TIf(f)     == [node |-> "if",    text |-> <<>>, field |-> f]
TEnd       == [node |-> "end",   text |-> <<>>, field |-> ""]

\* <html><body onload="document.forms[0].submit()"><form method="post" action="
tplHead == <<60, 104, 116, 109, 108, 62, 60, 98, 111, 100, 121, 32, 111, 110, 108, 111, 97, 100, 61, 34, 100, 111, 99, 117, 109, 101, 110, 116, 46, 102, 111, 114, 109, 115, 91, 48, 93, 46, 115, 117, 98, 109, 105, 116, 40, 41, 34, 62, 60, 102, 111, 114, 109, 32, 109, 101, 116, 104, 111, 100, 61, 34, 112, 111, 115, 116, 34, 32, 97, 99, 116, 105, 111, 110, 61, 34>>
\* "><input type="hidden" name="SAMLResponse" value="
tplResp == <<34, 62, 60, 105, 110, 112, 117, 116, 32, 116, 121, 112, 101, 61, 34, 104, 105, 100, 100, 101, 110, 34, 32, 110, 97, 109, 101, 61, 34, 83, 65, 77, 76, 82, 101, 115, 112, 111, 110, 115, 101, 34, 32, 118, 97, 108, 117, 101, 61, 34>>
\* <input type="hidden" name="RelayState" value="
tplRelayOpen == <<60, 105, 110, 112, 117, 116, 32, 116, 121, 112, 101, 61, 34, 104, 105, 100, 100, 101, 110, 34, 32, 110, 97, 109, 101, 61, 34, 82, 101, 108, 97, 121, 83, 116, 97, 116, 101, 34, 32, 118, 97, 108, 117, 101, 61, 34>>
\* " />
tplClose == <<34, 32, 47, 62>>
\* <noscript><input type="submit" value="Continue" /></noscript></form></body></html>
tplTail == <<60, 110, 111, 115, 99, 114, 105, 112, 116, 62, 60, 105, 110, 112, 117, 116, 32, 116, 121, 112, 101, 61, 34, 115, 117, 98, 109, 105, 116, 34, 32, 118, 97, 108, 117, 101, 61, 34, 67, 111, 110, 116, 105, 110, 117, 101, 34, 32, 47, 62, 60, 47, 110, 111, 115, 99, 114, 105, 112, 116, 62, 60, 47, 102, 111, 114, 109, 62, 60, 47, 98, 111, 100, 121, 62, 60, 47, 104, 116, 109, 108, 62>>

\* The template of the redirect form, as the sequence of its text and
\* action ({{...}}) parts: a post form whose action is {{.FormAction}}, a
\* hidden SAMLResponse input, a hidden RelayState input inside
\* {{if .RelayState}}...{{end}}, a script that submits on load and a
\* visible submit control.
redirectFormTemplate ==
    << TText(tplHead), TField("FormAction"),
       TText(tplResp), TField("SAMLResponse"), TText(tplClose),
       TIf("RelayState"),
           TText(tplRelayOpen), TField("RelayState"), TText(tplClose),
       TEnd,
       TText(tplTail) >>

RECURSIVE Balanced(_, _)
\* Every {{end}} closes an open {{if}} and no {{if}} stays open.
Balanced(nodes, open) ==
    IF nodes = <<>> THEN open = 0
    ELSE CASE Head(nodes).node = "if"  -> Balanced(Tail(nodes), open + 1)
           [] Head(nodes).node = "end" -> open > 0 /\ Balanced(Tail(nodes), open - 1)
           [] OTHER                    -> Balanced(Tail(nodes), open)

\* template.New("").Parse(text)
Parse(text) ==
    IF Balanced(text, 0) THEN [err |-> NoErr, tpl |-> text]
    ELSE [err |-> "template.ParseError", tpl |-> <<>>]

\* The replacement template.HTMLEscape writes for byte c.
HTMLEscapeByte(c) ==
    CASE c = 34 -> <<38, 35, 51, 52, 59>>        \* &#34;
      [] c = 39 -> <<38, 35, 51, 57, 59>>        \* &#39;
      [] c = 38 -> <<38, 97, 109, 112, 59>>      \* &amp;
      [] c = 60 -> <<38, 108, 116, 59>>          \* &lt;
      [] c = 62 -> <<38, 103, 116, 59>>          \* &gt;
      [] OTHER  -> <<c>>

\* template.HTMLEscapeString(s)
HTMLEscapeString(s) == Concat([i \in 1..Len(s) |-> HTMLEscapeByte(s[i])])

\* The bytes text/template prints for the string value v of an action:
\* the value itself.
PrintValue(v) == v

RECURSIVE ExecNodes(_, _, _)
\* The walk of text/template over the parsed nodes: text is copied, a
\* field action prints the field's value, the body of an {{if}} on an
\* empty field is skipped.  skip counts the open {{if}}s being skipped.
ExecNodes(nodes, data, skip) ==
    IF nodes = <<>> THEN [err |-> NoErr, out |-> <<>>]
    ELSE
        LET n    == Head(nodes)
            rest(sk) == ExecNodes(Tail(nodes), data, sk)
            emit(b)  == LET r == rest(0) IN [err |-> r.err, out |-> b \o r.out]
            nofield  == [err |-> "template.ExecError", out |-> <<>>]
        IN  IF skip > 0 THEN
                CASE n.node = "if"  -> rest(skip + 1)
                  [] n.node = "end" -> rest(skip - 1)
                  [] OTHER          -> rest(skip)
            ELSE
                CASE n.node = "text"  -> emit(n.text)
                  [] n.node = "field" ->
                        IF n.field \in DOMAIN data THEN emit(PrintValue(data[n.field]))
                        ELSE nofield
                  [] n.node = "if"    ->
                        IF n.field \notin DOMAIN data THEN nofield
                        ELSE IF data[n.field] = <<>> THEN rest(1)
                        ELSE rest(0)
                  [] n.node = "end"   -> rest(0)

\* formTpl.Execute(formBuf, form)
Execute(tpl, data) == ExecNodes(tpl, data, 0)

(***************************************************************************)
(* Values of the model.                                                    *)
(***************************************************************************)
\* Sessions are opaque; the model tells them apart by number.
NumSessions == 2
Sessions    == 1..NumSessions
NoSession   == 0

\* The name the assertion carries for the user of session s: "u1", "u2", ...
SessionUser(s) == <<117, 48 + s>>

\* Error values returned by the authentication hook and by the identity
\* provider.
CollabErrs == {"errA", "errB"}

\* <AuthnRequest ID="a" Version="2.0"/>
DocA == <<60, 65, 117, 116, 104, 110, 82, 101, 113, 117, 101, 115, 116, 32, 73, 68, 61, 34, 97, 34, 32, 86, 101, 114, 115, 105, 111, 110, 61, 34, 50, 46, 48, 34, 47, 62>>
\* <AuthnRequest Version="2.0" ID="b"></AuthnRequest>
DocB == <<60, 65, 117, 116, 104, 110, 82, 101, 113, 117, 101, 115, 116, 32, 86, 101, 114, 115, 105, 111, 110, 61, 34, 50, 46, 48, 34, 32, 73, 68, 61, 34, 98, 34, 62, 60, 47, 65, 117, 116, 104, 110, 82, 101, 113, 117, 101, 115, 116, 62>>
\* hello
NotXML == <<104, 101, 108, 108, 111>>
\* <AuthnRequest ID="a"
CutXML == <<60, 65, 117, 116, 104, 110, 82, 101, 113, 117, 101, 115, 116, 32, 73, 68, 61, 34, 97, 34>>
\* PEF*   ('*' is not in the base64 alphabet)
NotBase64 == <<80, 69, 70, 42>>
\* A block of the reserved type followed by arbitrary bytes.
NotDeflate == <<7, 1, 2, 3>>
\* A stored block cut short of its announced length.
CutDeflate == Take(StoredDeflate(DocA), 20)

\* xyz
RelayPlain == <<120, 121, 122>>
\* a<b&"c"
RelayMarkup == <<97, 60, 98, 38, 34, 99, 34>>

QV(k, v) == [key |-> k, value |-> v]

\* The query strings of the inbound requests, as url.Values: the
\* (key, value) pairs in the order they appear.
Requests ==
    { << QV("SAMLRequest", EncodeToString(StoredDeflate(DocA))), QV("RelayState", RelayMarkup) >>,
      << QV("RelayState", RelayPlain), QV("SAMLRequest", EncodeToString(StoredDeflate(DocB))),
         QV("RelayState", RelayMarkup) >>,
      << QV("SAMLRequest", EncodeToString(StoredDeflate(DocB))) >>,
      << QV("SAMLRequest", NotBase64), QV("RelayState", RelayPlain) >>,
      << QV("SAMLRequest", EncodeToString(NotDeflate)) >>,
      << QV("SAMLRequest", EncodeToString(CutDeflate)) >>,
      << QV("SAMLRequest", EncodeToString(StoredDeflate(NotXML))) >>,
      << QV("SAMLRequest", EncodeToString(StoredDeflate(CutXML))) >>,
      << QV("SAMLRequest", <<>>), QV("RelayState", RelayPlain) >>,
      << QV("RelayState", RelayPlain) >> }

\* url.Values.Get(key): the first value of key, "" when the key is absent.
Get(values, k) ==
    IF \E i \in 1..Len(values) : values[i].key = k
    THEN values[CHOOSE i \in 1..Len(values) :
                  /\ values[i].key = k
                  /\ \A j \in 1..(i - 1) : values[j].key # k].value
    ELSE <<>>

\* https://idp
IdpEntityID == <<104, 116, 116, 112, 115, 58, 47, 47, 105, 100, 112>>

\* The identity provider the middleware is built on; NilIdP is the nil pointer.
TheIdP == [EntityID |-> IdpEntityID]
NilIdP == [EntityID |-> <<>>]

\* https://sp/acs
AcsURL == <<104, 116, 116, 112, 115, 58, 47, 47, 115, 112, 47, 97, 99, 115>>
\* https://sp/"b"
AcsURLQuoted == <<104, 116, 116, 112, 115, 58, 47, 47, 115, 112, 47, 34, 98, 34>>

\* The assertion consumer URLs the identity provider knows for its service
\* providers.
AcsURLs == {AcsURL, AcsURLQuoted}

(***************************************************************************)
(* http.ResponseWriter: the calls made on it, in order.  by tells the      *)
(* caller: the authentication hook ("authFn") or this package ("idp").     *)
(***************************************************************************)
HeaderSet(by, k, v) == [by |-> by, op |-> "Header.Set", key |-> k, value |-> v, body |-> <<>>]
Write(by, b)        == [by |-> by, op |-> "Write", key |-> "", value |-> "", body |-> b]
WriteHeader(by, st) == [by |-> by, op |-> "WriteHeader", key |-> "", value |-> st, body |-> <<>>]

\* The generic error response.
ErrorResponse == [by |-> "idp", op |-> "writeErr", key |-> "", value |-> "", body |-> <<>>]

\* writeErr(w, err): writes the generic error response; err is not reflected.
writeErr(wr, er) == Append(wr, ErrorResponse)

\* What the hook has written when it returns an error: nothing, or its own
\* response (a redirect to a login page).
HookFailureWrites ==
    { <<>>,
      << HeaderSet("authFn", "Location", "/login"), WriteHeader("authFn", "302") >> }

\* What the hook has written when it returns a session: nothing, or a header.
HookSuccessWrites ==
    { <<>>, << HeaderSet("authFn", "Set-Cookie", "session") >> }

\* saml.Logf(format, arg) appended to the log lg.
Logf(lg, format, arg) == Append(lg, [format |-> format, arg |-> arg])

(***************************************************************************)
(* saml.IdpAuthnRequest and the documents of the identity provider.        *)
(***************************************************************************)
NoAssertion ==
    [Subject |-> [NameID |-> <<>>,
                  SubjectConfirmation |->
                      [SubjectConfirmationData |-> [Recipient |-> <<>>, InResponseTo |-> <<>>]]]]

NoResponse == [InResponseTo |-> <<>>, Destination |-> <<>>, Assertion |-> NoAssertion]

\* var idpAuthnRequest before line 121.
ZeroIdpAuthnRequest ==
    [IDP |-> NilIdP, HTTPRequest |-> 0, Request |-> ZeroAuthnRequest,
     Assertion |-> NoAssertion, AssertionBuffer |-> <<>>, Response |-> NoResponse]

Leaf(name, text) == [name |-> name, attrs |-> <<>>, text |-> text, kids |-> <<>>]

\* The element tree of an assertion:
\* <Assertion><Subject>user</Subject><Recipient>url</Recipient></Assertion>
AssertionElement(a) ==
    [name  |-> <<65, 115, 115, 101, 114, 116, 105, 111, 110>>,
     attrs |-> <<>>, text |-> <<>>,
     kids  |-> << Leaf(<<83, 117, 98, 106, 101, 99, 116>>, a.Subject.NameID),
                  Leaf(<<82, 101, 99, 105, 112, 105, 101, 110, 116>>,
                       a.Subject.SubjectConfirmation.SubjectConfirmationData.Recipient) >>]

\* The element tree of a response: <Response InResponseTo=".." Destination="..">
\* holding the assertion.
ResponseElement(resp) ==
    [name  |-> <<82, 101, 115, 112, 111, 110, 115, 101>>,
     attrs |-> << [name  |-> <<73, 110, 82, 101, 115, 112, 111, 110, 115, 101, 84, 111>>,
                   value |-> resp.InResponseTo],
                  [name  |-> <<68, 101, 115, 116, 105, 110, 97, 116, 105, 111, 110>>,
                   value |-> resp.Destination] >>,
     text  |-> <<>>,
     kids  |-> << AssertionElement(resp.Assertion) >>]

\* The element tree of the metadata of identity provider p:
\* <EntityDescriptor entityID=".."><IDPSSODescriptor></IDPSSODescriptor></EntityDescriptor>
MetadataElement(md) ==
    [name  |-> <<69, 110, 116, 105, 116, 121, 68, 101, 115, 99, 114, 105, 112, 116, 111, 114>>,
     attrs |-> << [name |-> <<101, 110, 116, 105, 116, 121, 73, 68>>, value |-> md.EntityID] >>,
     text  |-> <<>>,
     kids  |-> << Leaf(<<73, 68, 80, 83, 83, 79, 68, 101, 115, 99, 114, 105, 112, 116, 111, 114>>, <<>>) >>]

\* IdentityProvider.Metadata() of provider p, when it succeeds.
Metadata(p) == [EntityID |-> p.EntityID]
NoMetadata  == [EntityID |-> <<>>]

\* The declaration without the trailing newline.
XMLDeclarationNoNewline == <<60, 63, 120, 109, 108, 32, 118, 101, 114, 115, 105, 111, 110, 61, 34, 49, 46, 48, 34, 32, 101, 110, 99, 111, 100, 105, 110, 103, 61, 34, 85, 84, 70, 45, 56, 34, 63, 62>>

\* <?xml version="1.0" encoding="UTF-8"?>\n
XMLDeclaration == <<60, 63, 120, 109, 108, 32, 118, 101, 114, 115, 105, 111, 110, 61, 34, 49, 46, 48, 34, 32, 101, 110, 99, 111, 100, 105, 110, 103, 61, 34, 85, 84, 70, 45, 56, 34, 63, 62, 10>>

(***************************************************************************)
(* State.                                                                  *)
(***************************************************************************)
\* The exchanges: invocations of the handler ServeSSO returns.
Exch == {1, 2}

VARIABLES
    m,               \* the Middleware: [idp |-> ...]
    pc,              \* pc[e]: the next statement of exchange e
    req,             \* req[e]: r.URL.Query() of the inbound request
    w,               \* w[e]: the calls made on the http.ResponseWriter
    log,             \* log[e]: the saml.Logf events of the exchange
    calls,           \* calls[e]: the functions the handler has called, in order
    sess, err, relayState, samlRequest, data, buf, authnRequest,
    idpAuthnRequest, form, formTpl, formBuf,   \* the locals of the handler
    mpc,             \* the next statement of ServeMetadata
    mw,              \* its http.ResponseWriter
    mlog,            \* its saml.Logf events
    metadata, out, merr,                       \* its locals
    ctor,            \* the call of NewMiddleware: its argument and whether it panicked
    lpc,             \* the next statement of NewLoginRequest
    largs,           \* its arguments: [spMetadataURL, authFn]
    lmetadata, lerr, \* its locals
    lret,            \* what it returned: [lr, err]
    llog             \* its saml.Logf events

ssoVars  == << pc, req, w, log, calls, sess, err, relayState, samlRequest, data, buf,
               authnRequest, idpAuthnRequest, form, formTpl, formBuf >>
metaVars == << mpc, mw, mlog, metadata, out, merr >>
loginVars == << lpc, largs, lmetadata, lerr, lret, llog >>
vars     == << m, ctor, ssoVars, metaVars, loginVars >>

NoForm == [FormAction |-> <<>>, RelayState |-> <<>>, SAMLResponse |-> <<>>]

\* A constructor without the nil check of lines 45-47.
NewMiddlewareUnchecked(p) == [panic |-> FALSE, m |-> [idp |-> p]]

\* NewMiddleware(idp): panics on a nil provider, else holds the provider.
NewMiddleware(p) ==
    IF p = NilIdP THEN [panic |-> TRUE, m |-> [idp |-> NilIdP]]
    ELSE [panic |-> FALSE, m |-> [idp |-> p]]

\* The SP metadata a LoginRequest holds before any was fetched, the
\* arguments before any call, and the nil *LoginRequest.
NoSPMetadata   == [EntityID |-> <<>>]
NoLoginArgs    == [spMetadataURL |-> <<>>, authFn |-> ""]
NilLoginRequest ==
    [nil |-> TRUE, spMetadataURL |-> <<>>, m |-> [idp |-> NilIdP], authFn |-> "",
     metadata |-> NoSPMetadata]

\* No handler has been called yet.
Idle ==
    /\ pc = [e \in Exch |-> "idle"]
    /\ req = [e \in Exch |-> <<>>]
    /\ w = [e \in Exch |-> <<>>]
    /\ log = [e \in Exch |-> <<>>]
    /\ calls = [e \in Exch |-> <<>>]
    /\ sess = [e \in Exch |-> NoSession]
    /\ err = [e \in Exch |-> NoErr]
    /\ relayState = [e \in Exch |-> <<>>]
    /\ samlRequest = [e \in Exch |-> <<>>]
    /\ data = [e \in Exch |-> <<>>]
    /\ buf = [e \in Exch |-> <<>>]
    /\ authnRequest = [e \in Exch |-> ZeroAuthnRequest]
    /\ idpAuthnRequest = [e \in Exch |-> ZeroIdpAuthnRequest]
    /\ form = [e \in Exch |-> NoForm]
    /\ formTpl = [e \in Exch |-> <<>>]
    /\ formBuf = [e \in Exch |-> <<>>]
    /\ mpc = "idle"
    /\ mw = <<>>
    /\ mlog = <<>>
    /\ metadata = NoMetadata
    /\ out = <<>>
    /\ merr = NoErr
    /\ lpc = "idle"
    /\ largs = NoLoginArgs
    /\ lmetadata = NoSPMetadata
    /\ lerr = NoErr
    /\ lret = [lr |-> NilLoginRequest, err |-> NoErr]
    /\ llog = <<>>

\* The state after m := NewMiddleware(p).
Constructed(p) ==
    /\ ctor = [arg |-> p, panic |-> NewMiddleware(p).panic]
    /\ m = NewMiddleware(p).m
    /\ Idle

Init == Constructed(TheIdP)

Set(f, e, v) == [f EXCEPT ![e] = v]

(***************************************************************************)
(* ServeSSO.                                                               *)
(***************************************************************************)
\* A handler that reads and decodes SAMLRequest on entry, before it calls the
\* hook.
RequestDecodesFirst(e, R) ==
    /\ pc[e] = "idle"
    /\ \E q \in R :
          /\ req' = Set(req, e, q)
          /\ samlRequest' = Set(samlRequest, e, Get(q, "SAMLRequest"))
          /\ relayState' = Set(relayState, e, Get(q, "RelayState"))
          /\ data' = Set(data, e, DecodeString(Get(q, "SAMLRequest")).data)
    /\ calls' = Set(calls, e, calls[e] \o <<"URL.Query", "base64.DecodeString">>)
    /\ pc' = Set(pc, e, "authFn")
    /\ UNCHANGED << m, ctor, w, log, sess, err, buf,
                    authnRequest, idpAuthnRequest, form, formTpl, formBuf, metaVars, loginVars >>

\* The HTTP server calls the handler with a request whose query is in R.
Request(e, R) ==
    /\ pc[e] = "idle"
    /\ \E q \in R : req' = Set(req, e, q)
    /\ pc' = Set(pc, e, "authFn")
    /\ UNCHANGED << m, ctor, w, log, calls, sess, err, relayState, samlRequest, data, buf,
                    authnRequest, idpAuthnRequest, form, formTpl, formBuf, metaVars, loginVars >>

\* sess, err := authFn(w, r) returns a session: the handler goes on.
AuthFnOk(e) ==
    /\ pc[e] = "authFn"
    /\ \E s \in Sessions, hw \in HookSuccessWrites :
          /\ sess' = Set(sess, e, s)
          /\ w' = Set(w, e, w[e] \o hw)
    /\ err' = Set(err, e, NoErr)
    /\ calls' = Set(calls, e, calls[e] \o <<"authFn">>)
    /\ pc' = Set(pc, e, "Query")
    /\ UNCHANGED << m, ctor, req, log, relayState, samlRequest, data, buf,
                    authnRequest, idpAuthnRequest, form, formTpl, formBuf, metaVars, loginVars >>

\* The same statement with the error written to the client.
AuthFnErrWritesErr(e) ==
    /\ pc[e] = "authFn"
    /\ \E er \in CollabErrs, hw \in HookFailureWrites :
          /\ err' = Set(err, e, er)
          /\ w' = Set(w, e, writeErr(w[e] \o hw, er))
          /\ log' = Set(log, e, Logf(log[e], "authFn: %v", er))
    /\ sess' = Set(sess, e, NoSession)
    /\ calls' = Set(calls, e, calls[e] \o <<"authFn", "saml.Logf", "writeErr">>)
    /\ pc' = Set(pc, e, "Aborted")
    /\ UNCHANGED << m, ctor, req, relayState, samlRequest, data, buf,
                    authnRequest, idpAuthnRequest, form, formTpl, formBuf, metaVars, loginVars >>

\* The same statement without the return.
AuthFnErrGoesOn(e) ==
    /\ pc[e] = "authFn"
    /\ \E er \in CollabErrs, hw \in HookFailureWrites :
          /\ err' = Set(err, e, er)
          /\ w' = Set(w, e, w[e] \o hw)
          /\ log' = Set(log, e, Logf(log[e], "authFn: %v", er))
    /\ sess' = Set(sess, e, NoSession)
    /\ calls' = Set(calls, e, calls[e] \o <<"authFn", "saml.Logf">>)
    /\ pc' = Set(pc, e, "Query")
    /\ UNCHANGED << m, ctor, req, relayState, samlRequest, data, buf,
                    authnRequest, idpAuthnRequest, form, formTpl, formBuf, metaVars, loginVars >>

\* sess, err := authFn(w, r) returns an error: saml.Logf("authFn: %v", err)
\* and return.  The hook may have written its own response.
AuthFnErr(e) ==
    /\ pc[e] = "authFn"
    /\ \E er \in CollabErrs, hw \in HookFailureWrites :
          /\ err' = Set(err, e, er)
          /\ w' = Set(w, e, w[e] \o hw)
          /\ log' = Set(log, e, Logf(log[e], "authFn: %v", er))
    /\ sess' = Set(sess, e, NoSession)
    /\ calls' = Set(calls, e, calls[e] \o <<"authFn", "saml.Logf">>)
    /\ pc' = Set(pc, e, "Aborted")
    /\ UNCHANGED << m, ctor, req, relayState, samlRequest, data, buf,
                    authnRequest, idpAuthnRequest, form, formTpl, formBuf, metaVars, loginVars >>

\* The same statement with relayState and samlRequest kept in variables of
\* the package instead of locals of the handler: every exchange sees the
\* values of the request read last.
QueryIntoShared(e) ==
    /\ pc[e] = "Query"
    /\ relayState' = [x \in Exch |-> Get(req[e], "RelayState")]
    /\ samlRequest' = [x \in Exch |-> Get(req[e], "SAMLRequest")]
    /\ calls' = Set(calls, e, calls[e] \o <<"URL.Query">>)
    /\ pc' = Set(pc, e, "DecodeString")
    /\ UNCHANGED << m, ctor, req, w, log, sess, err, data, buf,
                    authnRequest, idpAuthnRequest, form, formTpl, formBuf, metaVars, loginVars >>

\* values := r.URL.Query(); relayState, samlRequest := values.Get(...)
Query(e) ==
    /\ pc[e] = "Query"
    /\ relayState' = Set(relayState, e, Get(req[e], "RelayState"))
    /\ samlRequest' = Set(samlRequest, e, Get(req[e], "SAMLRequest"))
    /\ calls' = Set(calls, e, calls[e] \o <<"URL.Query">>)
    /\ pc' = Set(pc, e, "DecodeString")
    /\ UNCHANGED << m, ctor, req, w, log, sess, err, data, buf,
                    authnRequest, idpAuthnRequest, form, formTpl, formBuf, metaVars, loginVars >>

\* The failure path with the error value written to the client.
FailReflectsErr(e, step, format, er) ==
    /\ err' = Set(err, e, er)
    /\ log' = Set(log, e, Logf(log[e], format, er))
    /\ w' = Set(w, e, Append(w[e], [by |-> "idp", op |-> "Write", key |-> "",
                                    value |-> er, body |-> <<>>]))
    /\ calls' = Set(calls, e, calls[e] \o <<step, "saml.Logf", "writeErr">>)
    /\ pc' = Set(pc, e, "Aborted")

\* The failure path without its log call: the error is answered and not
\* logged.
FailSilently(e, step, format, er) ==
    /\ err' = Set(err, e, er)
    /\ w' = Set(w, e, writeErr(w[e], er))
    /\ calls' = Set(calls, e, calls[e] \o <<step, "writeErr">>)
    /\ pc' = Set(pc, e, "Aborted")
    /\ UNCHANGED log

\* The failure path of a step of ServeSSO after authentication:
\* saml.Logf(format, err); writeErr(w, err); return
Fail(e, step, format, er) ==
    /\ err' = Set(err, e, er)
    /\ log' = Set(log, e, Logf(log[e], format, er))
    /\ w' = Set(w, e, writeErr(w[e], er))
    /\ calls' = Set(calls, e, calls[e] \o <<step, "saml.Logf", "writeErr">>)
    /\ pc' = Set(pc, e, "Aborted")

\* The success path of a step: err is nil and control moves on.
Pass(e, step, next) ==
    /\ err' = Set(err, e, NoErr)
    /\ calls' = Set(calls, e, calls[e] \o <<step>>)
    /\ pc' = Set(pc, e, next)
    /\ UNCHANGED << w, log >>

\* The same statement without the return after writeErr.
DecodeBase64GoesOn(e) ==
    /\ pc[e] = "DecodeString"
    /\ LET r == DecodeString(samlRequest[e])
       IN  /\ data' = Set(data, e, r.data)
           /\ err' = Set(err, e, r.err)
           /\ pc' = Set(pc, e, "flate")
           /\ IF r.err # NoErr
              THEN /\ log' = Set(log, e, Logf(log[e], "Failed to decode SAMLRequest: %v", r.err))
                   /\ w' = Set(w, e, writeErr(w[e], r.err))
                   /\ calls' = Set(calls, e, calls[e] \o
                                     <<"base64.DecodeString", "saml.Logf", "writeErr">>)
              ELSE /\ calls' = Set(calls, e, calls[e] \o <<"base64.DecodeString">>)
                   /\ UNCHANGED << w, log >>
    /\ UNCHANGED << m, ctor, req, sess, relayState, samlRequest, buf,
                    authnRequest, idpAuthnRequest, form, formTpl, formBuf, metaVars, loginVars >>

\* data, err := base64.StdEncoding.DecodeString(samlRequest)
DecodeBase64(e) ==
    /\ pc[e] = "DecodeString"
    /\ LET r == DecodeString(samlRequest[e])
       IN  /\ data' = Set(data, e, r.data)
           /\ IF r.err # NoErr
              THEN Fail(e, "base64.DecodeString", "Failed to decode SAMLRequest: %v", r.err)
              ELSE Pass(e, "base64.DecodeString", "flate")
    /\ UNCHANGED << m, ctor, req, sess, relayState, samlRequest, buf,
                    authnRequest, idpAuthnRequest, form, formTpl, formBuf, metaVars, loginVars >>

\* The same statement with the error of ReadAll dropped.
InflateDropsErr(e) ==
    /\ pc[e] = "flate"
    /\ LET r == InflateBlocks(data[e])
       IN  /\ buf' = Set(buf, e, r.buf)
           /\ Pass(e, "flate.ReadAll", "Unmarshal")
    /\ UNCHANGED << m, ctor, req, sess, relayState, samlRequest, data,
                    authnRequest, idpAuthnRequest, form, formTpl, formBuf, metaVars, loginVars >>

\* The same statement taking empty data for an empty document instead of
\* inflating it.
InflateSkipsEmpty(e) ==
    /\ pc[e] = "flate"
    /\ LET r == IF data[e] = <<>> THEN [err |-> NoErr, buf |-> <<>>]
                ELSE InflateBlocks(data[e])
       IN  /\ buf' = Set(buf, e, r.buf)
           /\ IF r.err # NoErr
              THEN Fail(e, "flate.ReadAll", "Failed to read SAMLRequest: %v", r.err)
              ELSE Pass(e, "flate.ReadAll", "Unmarshal")
    /\ UNCHANGED << m, ctor, req, sess, relayState, samlRequest, data,
                    authnRequest, idpAuthnRequest, form, formTpl, formBuf, metaVars, loginVars >>

\* buf, err := ioutil.ReadAll(flate.NewReader(bytes.NewBuffer(data)))
Inflate(e) ==
    /\ pc[e] = "flate"
    /\ LET r == InflateBlocks(data[e])
       IN  /\ buf' = Set(buf, e, r.buf)
           /\ IF r.err # NoErr
              THEN Fail(e, "flate.ReadAll", "Failed to read SAMLRequest: %v", r.err)
              ELSE Pass(e, "flate.ReadAll", "Unmarshal")
    /\ UNCHANGED << m, ctor, req, sess, relayState, samlRequest, data,
                    authnRequest, idpAuthnRequest, form, formTpl, formBuf, metaVars, loginVars >>

\* err = xml.Unmarshal(buf, &authnRequest); on success the IdpAuthnRequest
\* of the exchange is built from m.idp, r and authnRequest.
UnmarshalRequest(e) ==
    /\ pc[e] = "Unmarshal"
    /\ LET r == Unmarshal(buf[e])
       IN  /\ authnRequest' = Set(authnRequest, e, r.v)
           /\ IF r.err # NoErr
              THEN /\ Fail(e, "xml.Unmarshal", "Failed to unmarshal SAMLRequest: %v", r.err)
                   /\ UNCHANGED idpAuthnRequest
              ELSE /\ Pass(e, "xml.Unmarshal", "MakeAssertion")
                   /\ idpAuthnRequest' =
                        Set(idpAuthnRequest, e,
                            [ZeroIdpAuthnRequest EXCEPT !.IDP = m.idp,
                                                        !.HTTPRequest = e,
                                                        !.Request = r.v])
    /\ UNCHANGED << m, ctor, req, sess, relayState, samlRequest, data, buf,
                    form, formTpl, formBuf, metaVars, loginVars >>

\* The outcomes of idpAuthnRequest.MakeAssertion(s): an error, or the
\* assertion for the user of session s in answer to the request, addressed
\* to an assertion consumer URL of the service provider.
MakeAssertion(ir, s) ==
    { [err |-> er, ir |-> ir] : er \in CollabErrs }
    \cup
    { [err |-> NoErr,
       ir  |-> [ir EXCEPT !.Assertion =
                  [Subject |-> [NameID |-> SessionUser(s),
                                SubjectConfirmation |->
                                  [SubjectConfirmationData |->
                                     [Recipient |-> u, InResponseTo |-> ir.Request.ID]]]]]]
      : u \in AcsURLs }

\* The outcomes of idpAuthnRequest.MarshalAssertion(): an error, or the
\* serialized assertion stored in the request.
MarshalAssertion(ir) ==
    { [err |-> er, ir |-> ir] : er \in CollabErrs }
    \cup
    { [err |-> NoErr,
       ir  |-> [ir EXCEPT !.AssertionBuffer = MarshalIndent(AssertionElement(ir.Assertion))]] }

\* The outcomes of idpAuthnRequest.MakeResponse(): an error, or the response
\* envelope around the assertion stored in the request.
MakeResponse(ir) ==
    { [err |-> er, ir |-> ir] : er \in CollabErrs }
    \cup
    { [err |-> NoErr,
       ir  |-> [ir EXCEPT !.Response =
                  [InResponseTo |-> ir.Request.ID,
                   Destination  |->
                       ir.Assertion.Subject.SubjectConfirmation.SubjectConfirmationData.Recipient,
                   Assertion    |-> ir.Assertion]]] }

\* err = idpAuthnRequest.MakeAssertion(sess)
MakeAssertionStep(e) ==
    /\ pc[e] = "MakeAssertion"
    /\ \E r \in MakeAssertion(idpAuthnRequest[e], sess[e]) :
          /\ idpAuthnRequest' = Set(idpAuthnRequest, e, r.ir)
          /\ IF r.err # NoErr
             THEN Fail(e, "MakeAssertion", "Failed to make assertion: %v", r.err)
             ELSE Pass(e, "MakeAssertion", "MarshalAssertion")
    /\ UNCHANGED << m, ctor, req, sess, relayState, samlRequest, data, buf,
                    authnRequest, form, formTpl, formBuf, metaVars, loginVars >>

\* The same statement without the return of line 138: the failure is logged
\* and answered, and the handler goes on to MakeResponse.
MarshalAssertionStepGoesOn(e) ==
    /\ pc[e] = "MarshalAssertion"
    /\ \E r \in MarshalAssertion(idpAuthnRequest[e]) :
          /\ idpAuthnRequest' = Set(idpAuthnRequest, e, r.ir)
          /\ err' = Set(err, e, r.err)
          /\ pc' = Set(pc, e, "MakeResponse")
          /\ IF r.err # NoErr
             THEN /\ log' = Set(log, e, Logf(log[e], "Failed to marshal assertion: %v", r.err))
                  /\ w' = Set(w, e, writeErr(w[e], r.err))
                  /\ calls' = Set(calls, e, calls[e] \o
                                    <<"MarshalAssertion", "saml.Logf", "writeErr">>)
             ELSE /\ calls' = Set(calls, e, calls[e] \o <<"MarshalAssertion">>)
                  /\ UNCHANGED << w, log >>
    /\ UNCHANGED << m, ctor, req, sess, relayState, samlRequest, data, buf,
                    authnRequest, form, formTpl, formBuf, metaVars, loginVars >>

\* err = idpAuthnRequest.MarshalAssertion()
MarshalAssertionStep(e) ==
    /\ pc[e] = "MarshalAssertion"
    /\ \E r \in MarshalAssertion(idpAuthnRequest[e]) :
          /\ idpAuthnRequest' = Set(idpAuthnRequest, e, r.ir)
          /\ IF r.err # NoErr
             THEN Fail(e, "MarshalAssertion", "Failed to marshal assertion: %v", r.err)
             ELSE Pass(e, "MarshalAssertion", "MakeResponse")
    /\ UNCHANGED << m, ctor, req, sess, relayState, samlRequest, data, buf,
                    authnRequest, form, formTpl, formBuf, metaVars, loginVars >>

\* The same statement with one retry: a first failure of MakeResponse is
\* followed by a second call instead of the failure path.
MakeResponseStepRetries(e) ==
    /\ pc[e] = "MakeResponse"
    /\ \E r \in MakeResponse(idpAuthnRequest[e]) :
          /\ idpAuthnRequest' = Set(idpAuthnRequest, e, r.ir)
          /\ IF r.err # NoErr /\ Count(calls[e], "MakeResponse") = 0
             THEN /\ err' = Set(err, e, r.err)
                  /\ calls' = Set(calls, e, calls[e] \o <<"MakeResponse">>)
                  /\ UNCHANGED << pc, w, log >>
             ELSE IF r.err # NoErr
             THEN Fail(e, "MakeResponse", "Failed to build response: %v", r.err)
             ELSE Pass(e, "MakeResponse", "MarshalIndent")
    /\ UNCHANGED << m, ctor, req, sess, relayState, samlRequest, data, buf,
                    authnRequest, form, formTpl, formBuf, metaVars, loginVars >>

\* err = idpAuthnRequest.MakeResponse()
MakeResponseStep(e) ==
    /\ pc[e] = "MakeResponse"
    /\ \E r \in MakeResponse(idpAuthnRequest[e]) :
          /\ idpAuthnRequest' = Set(idpAuthnRequest, e, r.ir)
          /\ IF r.err # NoErr
             THEN Fail(e, "MakeResponse", "Failed to build response: %v", r.err)
             ELSE Pass(e, "MakeResponse", "MarshalIndent")
    /\ UNCHANGED << m, ctor, req, sess, relayState, samlRequest, data, buf,
                    authnRequest, form, formTpl, formBuf, metaVars, loginVars >>

\* The outcomes of xml.MarshalIndent(v, "", "\t") for a value whose element
\* tree is el: the document, or the error of a value that cannot be encoded.
MarshalIndentResults(el) ==
    { [err |-> NoErr, out |-> MarshalIndent(el)],
      [err |-> "xml.UnsupportedTypeError", out |-> <<>>] }

\* buf, err = xml.MarshalIndent(idpAuthnRequest.Response, "", "\t")
MarshalResponse(e) ==
    /\ pc[e] = "MarshalIndent"
    /\ \E r \in MarshalIndentResults(ResponseElement(idpAuthnRequest[e].Response)) :
          /\ buf' = Set(buf, e, r.out)
          /\ IF r.err # NoErr
             THEN Fail(e, "xml.MarshalIndent", "Failed to format response: %v", r.err)
             ELSE Pass(e, "xml.MarshalIndent", "form")
    /\ UNCHANGED << m, ctor, req, sess, relayState, samlRequest, data,
                    authnRequest, idpAuthnRequest, form, formTpl, formBuf, metaVars, loginVars >>

\* The same statement with the relay state escaped before it is stored.
BuildFormEscapesRelay(e) ==
    /\ pc[e] = "form"
    /\ form' = Set(form, e,
          [FormAction   |-> idpAuthnRequest[e].Assertion.Subject.SubjectConfirmation
                                .SubjectConfirmationData.Recipient,
           RelayState   |-> HTMLEscapeString(relayState[e]),
           SAMLResponse |-> EncodeToString(buf[e])])
    /\ LET r == Parse(redirectFormTemplate)
       IN  /\ formTpl' = Set(formTpl, e, r.tpl)
           /\ IF r.err # NoErr
              THEN Fail(e, "template.Parse", "Failed to create form: %v", r.err)
              ELSE Pass(e, "template.Parse", "Execute")
    /\ UNCHANGED << m, ctor, req, sess, relayState, samlRequest, data, buf,
                    authnRequest, idpAuthnRequest, formBuf, metaVars, loginVars >>

\* form := redirectForm{...}
\* formTpl, err := template.New("").Parse(redirectFormTemplate)
BuildForm(e) ==
    /\ pc[e] = "form"
    /\ form' = Set(form, e,
          [FormAction   |-> idpAuthnRequest[e].Assertion.Subject.SubjectConfirmation
                                .SubjectConfirmationData.Recipient,
           RelayState   |-> relayState[e],
           SAMLResponse |-> EncodeToString(buf[e])])
    /\ LET r == Parse(redirectFormTemplate)
       IN  /\ formTpl' = Set(formTpl, e, r.tpl)
           /\ IF r.err # NoErr
              THEN Fail(e, "template.Parse", "Failed to create form: %v", r.err)
              ELSE Pass(e, "template.Parse", "Execute")
    /\ UNCHANGED << m, ctor, req, sess, relayState, samlRequest, data, buf,
                    authnRequest, idpAuthnRequest, formBuf, metaVars, loginVars >>

\* formBuf := bytes.NewBuffer(nil); err := formTpl.Execute(formBuf, form)
ExecuteForm(e) ==
    /\ pc[e] = "Execute"
    /\ LET r == Execute(formTpl[e], form[e])
       IN  /\ formBuf' = Set(formBuf, e, r.out)
           /\ IF r.err # NoErr
              THEN Fail(e, "template.Execute", "Failed to build form: %v", r.err)
              ELSE Pass(e, "template.Execute", "Write")
    /\ UNCHANGED << m, ctor, req, sess, relayState, samlRequest, data, buf,
                    authnRequest, idpAuthnRequest, form, formTpl, metaVars, loginVars >>

\* The same statement without the Content-Type header.
SendFormNoHeader(e) ==
    /\ pc[e] = "Write"
    /\ w' = Set(w, e, w[e] \o << Write("idp", formBuf[e]) >>)
    /\ calls' = Set(calls, e, calls[e] \o <<"Write">>)
    /\ pc' = Set(pc, e, "Sent")
    /\ UNCHANGED << m, ctor, req, log, sess, err, relayState, samlRequest, data, buf,
                    authnRequest, idpAuthnRequest, form, formTpl, formBuf, metaVars, loginVars >>

\* w.Header().Set("Content-Type", "text/html"); w.Write(formBuf.Bytes())
SendForm(e) ==
    /\ pc[e] = "Write"
    /\ w' = Set(w, e, w[e] \o << HeaderSet("idp", "Content-Type", "text/html"),
                                 Write("idp", formBuf[e]) >>)
    /\ calls' = Set(calls, e, calls[e] \o <<"Header.Set", "Write">>)
    /\ pc' = Set(pc, e, "Sent")
    /\ UNCHANGED << m, ctor, req, log, sess, err, relayState, samlRequest, data, buf,
                    authnRequest, idpAuthnRequest, form, formTpl, formBuf, metaVars, loginVars >>

\* One step of exchange e whose request is drawn from R.
ServeSSO(e, R) ==
    \/ Request(e, R)
    \/ AuthFnOk(e)
    \/ AuthFnErr(e)
    \/ Query(e)
    \/ DecodeBase64(e)
    \/ Inflate(e)
    \/ UnmarshalRequest(e)
    \/ MakeAssertionStep(e)
    \/ MarshalAssertionStep(e)
    \/ MakeResponseStep(e)
    \/ MarshalResponse(e)
    \/ BuildForm(e)
    \/ ExecuteForm(e)
    \/ SendForm(e)

(***************************************************************************)
(* ServeMetadata.                                                          *)
(***************************************************************************)
\* The outcomes of m.idp.Metadata(): the metadata of the provider, or an error.
MetadataResults(p) ==
    { [err |-> NoErr, metadata |-> Metadata(p)] }
    \cup { [err |-> er, metadata |-> NoMetadata] : er \in CollabErrs }

\* The HTTP server calls the handler.
MetaRequest ==
    /\ mpc = "idle"
    /\ mpc' = "Metadata"
    /\ UNCHANGED << m, ctor, loginVars, ssoVars, mw, mlog, metadata, out, merr >>

\* metadata, err := m.idp.Metadata(); on an error: log, writeErr, return.
MetaGenerate ==
    /\ mpc = "Metadata"
    /\ \E r \in MetadataResults(m.idp) :
          /\ metadata' = r.metadata
          /\ merr' = r.err
          /\ IF r.err # NoErr
             THEN /\ mlog' = Logf(mlog, "Failed to generate metadata: %v", r.err)
                  /\ mw' = writeErr(mw, r.err)
                  /\ mpc' = "Aborted"
             ELSE /\ mpc' = "MarshalIndent"
                  /\ UNCHANGED << mw, mlog >>
    /\ UNCHANGED << m, ctor, loginVars, ssoVars, out >>

\* The same statement in a handler that sets the content type and writes the
\* XML declaration before it marshals.
MetaMarshalAfterDeclaration ==
    /\ mpc = "MarshalIndent"
    /\ \E r \in MarshalIndentResults(MetadataElement(metadata)) :
          /\ out' = r.out
          /\ merr' = r.err
          /\ IF r.err # NoErr
             THEN /\ mlog' = Logf(mlog, "Failed to build metadata: %v", r.err)
                  /\ mw' = writeErr(mw \o << HeaderSet("idp", "Content-Type",
                                                       "application/xml; charset=utf8"),
                                             Write("idp", XMLDeclaration) >>, r.err)
                  /\ mpc' = "Aborted"
             ELSE /\ mpc' = "Header.Set"
                  /\ UNCHANGED << mw, mlog >>
    /\ UNCHANGED << m, ctor, loginVars, ssoVars, metadata >>

\* out, err := xml.MarshalIndent(metadata, "", "\t"); on an error: log,
\* writeErr, return.
MetaMarshal ==
    /\ mpc = "MarshalIndent"
    /\ \E r \in MarshalIndentResults(MetadataElement(metadata)) :
          /\ out' = r.out
          /\ merr' = r.err
          /\ IF r.err # NoErr
             THEN /\ mlog' = Logf(mlog, "Failed to build metadata: %v", r.err)
                  /\ mw' = writeErr(mw, r.err)
                  /\ mpc' = "Aborted"
             ELSE /\ mpc' = "Header.Set"
                  /\ UNCHANGED << mw, mlog >>
    /\ UNCHANGED << m, ctor, loginVars, ssoVars, metadata >>

\* w.Header().Set("Content-Type", "application/xml; charset=utf8")
MetaHeader ==
    /\ mpc = "Header.Set"
    /\ mw' = Append(mw, HeaderSet("idp", "Content-Type", "application/xml; charset=utf8"))
    /\ mpc' = "WriteDeclaration"
    /\ UNCHANGED << m, ctor, loginVars, ssoVars, mlog, metadata, out, merr >>

\* w.Write([]byte("<?xml version=\"1.0\" encoding=\"UTF-8\"?>\n"))
MetaWriteDeclaration ==
    /\ mpc = "WriteDeclaration"
    /\ mw' = Append(mw, Write("idp", XMLDeclaration))
    /\ mpc' = "WriteOut"
    /\ UNCHANGED << m, ctor, loginVars, ssoVars, mlog, metadata, out, merr >>

\* w.Write(out)
MetaWriteOut ==
    /\ mpc = "WriteOut"
    /\ mw' = Append(mw, Write("idp", out))
    /\ mpc' = "Sent"
    /\ UNCHANGED << m, ctor, loginVars, ssoVars, mlog, metadata, out, merr >>

\* One step of the handler ServeMetadata.
ServeMetadata ==
    \/ MetaRequest
    \/ MetaGenerate
    \/ MetaMarshal
    \/ MetaHeader
    \/ MetaWriteDeclaration
    \/ MetaWriteOut

(***************************************************************************)
(* NewLoginRequest.                                                        *)
(***************************************************************************)
\* The SP metadata URLs and the authentication hooks a caller passes.
SPMetadataURLs == { <<104, 116, 116, 112, 58, 47, 47, 115, 112, 49, 47, 109, 100>>,
                    <<104, 116, 116, 112, 58, 47, 47, 115, 112, 50, 47, 109, 100>> }
AuthFns == {"authFnA", "authFnB"}

\* saml.GetMetadata(url): the SP's metadata, or an error.
GetMetadataResults(url) ==
    { [err |-> NoErr, metadata |-> [EntityID |-> url]] } \cup
    { [err |-> er, metadata |-> NoSPMetadata] : er \in CollabErrs }

\* A call of m.NewLoginRequest(spMetadataURL, authFn).
LoginCall ==
    /\ lpc = "idle"
    /\ \E url \in SPMetadataURLs, fn \in AuthFns :
          largs' = [spMetadataURL |-> url, authFn |-> fn]
    /\ lpc' = "GetMetadata"
    /\ UNCHANGED << m, ctor, ssoVars, metaVars, lmetadata, lerr, lret, llog >>

\* A variant that returns the request it could build together with the error.
LoginFetchReturnsBoth ==
    /\ lpc = "GetMetadata"
    /\ \E r \in GetMetadataResults(largs.spMetadataURL) :
          /\ lmetadata' = r.metadata
          /\ lerr' = r.err
          /\ IF r.err # NoErr
             THEN /\ llog' = Logf(llog, "Failed to get metadata: %v", r.err)
                  /\ lret' = [lr |-> [nil |-> FALSE, spMetadataURL |-> largs.spMetadataURL,
                                      m |-> m, authFn |-> largs.authFn,
                                      metadata |-> r.metadata],
                              err |-> r.err]
                  /\ lpc' = "Returned"
             ELSE /\ lpc' = "LoginRequest"
                  /\ UNCHANGED << llog, lret >>
    /\ UNCHANGED << m, ctor, ssoVars, metaVars, largs >>

\* metadata, err := saml.GetMetadata(spMetadataURL); on an error: log it and
\* return nil, err.
LoginFetch ==
    /\ lpc = "GetMetadata"
    /\ \E r \in GetMetadataResults(largs.spMetadataURL) :
          /\ lmetadata' = r.metadata
          /\ lerr' = r.err
          /\ IF r.err # NoErr
             THEN /\ llog' = Logf(llog, "Failed to get metadata: %v", r.err)
                  /\ lret' = [lr |-> NilLoginRequest, err |-> r.err]
                  /\ lpc' = "Returned"
             ELSE /\ lpc' = "LoginRequest"
                  /\ UNCHANGED << llog, lret >>
    /\ UNCHANGED << m, ctor, ssoVars, metaVars, largs >>

\* lr := &LoginRequest{...}; return lr, nil.
LoginReturn ==
    /\ lpc = "LoginRequest"
    /\ lret' = [lr |-> [nil |-> FALSE, spMetadataURL |-> largs.spMetadataURL,
                        m |-> m, authFn |-> largs.authFn, metadata |-> lmetadata],
                err |-> NoErr]
    /\ lpc' = "Returned"
    /\ UNCHANGED << m, ctor, ssoVars, metaVars, largs, lmetadata, lerr, llog >>

NewLoginRequest ==
    \/ LoginCall
    \/ LoginFetch
    \/ LoginReturn

(***************************************************************************)
(* Specifications.                                                         *)
(***************************************************************************)
\* One SSO exchange and one metadata request, over every request of Requests.
Next ==
    \/ ServeSSO(1, Requests)
    \/ ServeMetadata

Spec == Init /\ [][Next]_vars

\* The requests of the concurrent exchanges.
ConcRequests ==
    { << QV("SAMLRequest", EncodeToString(StoredDeflate(DocA))), QV("RelayState", RelayMarkup) >>,
      << QV("SAMLRequest", EncodeToString(StoredDeflate(DocB))), QV("RelayState", RelayPlain) >>,
      << QV("SAMLRequest", NotBase64), QV("RelayState", RelayPlain) >>,
      << QV("SAMLRequest", EncodeToString(StoredDeflate(NotXML))) >> }

\* The exchanges of Exch served concurrently by the same handler.
NextConc == \E e \in Exch : ServeSSO(e, ConcRequests)

SpecConc == Init /\ [][NextConc]_vars

\* Every operation of the package on the Middleware NewMiddleware returned,
\* for every provider it can be given: a call that panicked returned no
\* Middleware, so no operation follows it.
NextAll ==
    /\ ~ ctor.panic
    /\ \/ ServeSSO(1, ConcRequests)
       \/ ServeMetadata
       \/ NewLoginRequest

InitAll == \E p \in {TheIdP, NilIdP} : Constructed(p)

SpecAll == InitAll /\ [][NextAll]_vars


\* The valid AuthnRequest documents of the codec round trip: every ID of
\* CodecIDs and Version of CodecVersions written in each of the shapes.
\* id-1
CodecIDPlain  == <<105, 100, 45, 49>>
\* a&b<c>
CodecIDMarkup == <<97, 38, 98, 60, 99, 62>>
\* "q'
CodecIDQuotes == <<34, 113, 39>>
CodecIDs      == { CodecIDPlain, CodecIDMarkup, CodecIDQuotes }
CodecVersions == { <<50, 46, 48>>, <<49, 46, 49>> }
NumShapes     == 3

AuthnRequestName == <<65, 117, 116, 104, 110, 82, 101, 113, 117, 101, 115, 116>>
AttrID           == <<73, 68>>
AttrVersion      == <<86, 101, 114, 115, 105, 111, 110>>

\* name=<q>value<q> with the value escaped as xml.EscapeText escapes it.
AttrText(name, v, q) == name \o <<61, q>> \o XMLEscape(v) \o <<q>>

\* The document of the given shape that describes AuthnRequest{ID, Version}:
\*   1  <AuthnRequest ID="..." Version="..."/>
\*   2  <AuthnRequest Version='...' ID='...'></AuthnRequest>
\*   3  the element over several lines, with white space around the
\*      attributes and character data inside and around the element.
AuthnRequestDoc(id, ver, shape) ==
    CASE shape = 1 ->
            <<60>> \o AuthnRequestName \o <<32>> \o AttrText(AttrID, id, 34) \o <<32>>
                \o AttrText(AttrVersion, ver, 34) \o <<47, 62>>
      [] shape = 2 ->
            <<60>> \o AuthnRequestName \o <<32>> \o AttrText(AttrVersion, ver, 39) \o <<32>>
                \o AttrText(AttrID, id, 39) \o <<62, 60, 47>> \o AuthnRequestName \o <<62>>
      [] OTHER ->
            <<10, 32, 60>> \o AuthnRequestName \o <<10, 9>> \o AttrText(AttrID, id, 34)
                \o <<10, 9>> \o AttrText(AttrVersion, ver, 34) \o <<32, 62, 10, 32, 120, 10, 60, 47>>
                \o AuthnRequestName \o <<32, 62, 10>>

\* A raw DEFLATE stream of d in two stored blocks, the second one final.
StoredDeflateTwoBlocks(d) ==
    LET h  == Len(d) \div 2
        d1 == Take(d, h)
    IN  << 0, Len(d1) % 256, Len(d1) \div 256,
           255 - (Len(d1) % 256), 255 - (Len(d1) \div 256) >> \o d1
            \o StoredDeflate(Drop(d, h))

\* A case of the round trip: a document, the AuthnRequest it describes, its
\* raw DEFLATE stream and the request that carries base64 of the stream.
CodecCase(id, ver, shape, blocks) ==
    LET d  == AuthnRequestDoc(id, ver, shape)
        df == IF blocks = 1 THEN StoredDeflate(d) ELSE StoredDeflateTwoBlocks(d)
    IN  [doc |-> d, v |-> [ID |-> id, Version |-> ver], deflated |-> df,
         req |-> << QV("SAMLRequest", EncodeToString(df)) >>]

CodecCases ==
    { CodecCase(id, ver, shape, blocks) :
        id \in CodecIDs, ver \in CodecVersions, shape \in 1..NumShapes, blocks \in 1..2 }

CodecRequests == { c.req : c \in CodecCases }

\* One SSO exchange over the requests of the codec round trip.
NextCodec == ServeSSO(1, CodecRequests)

SpecCodec == Init /\ [][NextCodec]_vars

\* The steps of the handler of exchange e once its request has arrived.
Handle(e) ==
    \/ AuthFnOk(e)
    \/ AuthFnErr(e)
    \/ Query(e)
    \/ DecodeBase64(e)
    \/ Inflate(e)
    \/ UnmarshalRequest(e)
    \/ MakeAssertionStep(e)
    \/ MarshalAssertionStep(e)
    \/ MakeResponseStep(e)
    \/ MarshalResponse(e)
    \/ BuildForm(e)
    \/ ExecuteForm(e)
    \/ SendForm(e)

\* The handler runs synchronously to its return: the hook and the
\* collaborator calls return, and the goroutine that serves the request is
\* scheduled, so a handler that can take a step eventually takes one.
NextLive == ServeSSO(1, Requests)

SpecLive == Init /\ [][NextLive]_vars /\ WF_vars(Handle(1))

(***************************************************************************)
(* Properties.                                                             *)
(***************************************************************************)
\* The calls on the response writer ws made by this package.
Own(ws) == SelectSeq(ws, LAMBDA ev : ev.by = "idp")

\* authFn has returned an error in exchange e: the call that follows it is
\* the log call of line 91.
AuthFailed(e) ==
    Len(calls[e]) >= 2 /\ calls[e][1] = "authFn" /\ calls[e][2] = "saml.Logf"

\* authFn has returned a session in exchange e.
AuthSucceeded(e) ==
    Len(calls[e]) >= 1 /\ calls[e][1] = "authFn" /\ ~AuthFailed(e) /\ sess[e] \in Sessions

\* The steps that build protocol state.
ProtocolSteps ==
    { "base64.DecodeString", "flate.ReadAll", "xml.Unmarshal", "MakeAssertion",
      "MarshalAssertion", "MakeResponse", "xml.MarshalIndent", "template.Parse",
      "template.Execute" }

\* The calls of an exchange that is authenticated and fails at the step
\* that follows the steps before.
FailedAfter(stepsBefore, step) ==
    <<"authFn", "URL.Query">> \o stepsBefore \o <<step, "saml.Logf", "writeErr">>

\* The RelayState parameter of the inbound request of exchange e is v: the
\* first RelayState pair of the query holds v, or there is none and v is "".
InboundRelayStateIs(e, v) ==
    \/ /\ \A i \in 1..Len(req[e]) : req[e][i].key # "RelayState"
       /\ v = <<>>
    \/ \E i \in 1..Len(req[e]) :
          /\ req[e][i] = QV("RelayState", v)
          /\ \A j \in 1..(i - 1) : req[e][j].key # "RelayState"

\* C1: when authFn returns an error the handler writes nothing to the
\* response (no header, no status, no body, no error response: writeErr is
\* not called) and the exchange is over: the only calls made are authFn and
\* the log call.
C1_AuthFailureWritesNothing ==
    \A e \in Exch :
        AuthFailed(e) =>
            /\ Own(w[e]) = <<>>
            /\ calls[e] = <<"authFn", "saml.Logf">>
            /\ pc[e] = "Aborted"

\* An exchange whose hook failed after writing its own redirect.
C1_Witness ==
    \E e \in Exch :
        /\ AuthFailed(e)
        /\ pc[e] = "Aborted"
        /\ err[e] \in CollabErrs
        /\ w[e] = << HeaderSet("authFn", "Location", "/login"), WriteHeader("authFn", "302") >>

\* C2: no protocol-construction step has happened in an exchange unless
\* authFn was called first and returned a session, and the assertion was
\* made for exactly that session.
C2_AuthBeforeProtocolState ==
    \A e \in Exch :
        /\ \A i \in 1..Len(calls[e]) :
              calls[e][i] \in ProtocolSteps => (i > 1 /\ AuthSucceeded(e))
        /\ ~AuthSucceeded(e) =>
              /\ data[e] = <<>> /\ buf[e] = <<>>
              /\ idpAuthnRequest[e] = ZeroIdpAuthnRequest
              /\ form[e] = NoForm /\ formBuf[e] = <<>>
        /\ idpAuthnRequest[e].Assertion # NoAssertion =>
              idpAuthnRequest[e].Assertion.Subject.NameID = SessionUser(sess[e])

\* An authenticated exchange that went through every step.
C2_Witness ==
    \E e \in Exch :
        /\ pc[e] = "Sent"
        /\ sess[e] = 2
        /\ idpAuthnRequest[e].Assertion.Subject.NameID = <<117, 50>>
        /\ \A st \in ProtocolSteps : Count(calls[e], st) = 1

\* The form of exchange e has been written to the response.
FormWritten(e) ==
    \E i \in 1..Len(w[e]) : w[e][i].by = "idp" /\ w[e][i].op = "Write"

\* C3: writeErr is called at most once in an exchange, at most one error
\* response is on the response writer, and an exchange never has both an
\* error response and the form.
C3_AtMostOneErrorResponse ==
    \A e \in Exch :
        /\ Count(calls[e], "writeErr") <= 1
        /\ Count(w[e], ErrorResponse) <= 1
        /\ ~(Count(w[e], ErrorResponse) > 0 /\ FormWritten(e))
        /\ pc[e] = "Sent" => Count(calls[e], "writeErr") = 0

\* An exchange aborted by a malformed request, with its one error response.
C3_Witness ==
    \E e \in Exch :
        /\ pc[e] = "Aborted"
        /\ err[e] = "base64.CorruptInputError"
        /\ Count(calls[e], "writeErr") = 1
        /\ Count(w[e], ErrorResponse) = 1

\* C4: from the moment it is read, the relay state of the handler is the
\* value of the RelayState parameter of the inbound request, and so is the
\* RelayState field of the form once the form is built.
C4_RelayStateVerbatim ==
    \A e \in Exch :
        /\ pc[e] \notin {"idle", "authFn", "Query"} /\ AuthSucceeded(e) =>
              InboundRelayStateIs(e, relayState[e])
        /\ pc[e] \in {"Execute", "Write", "Sent"} =>
              InboundRelayStateIs(e, form[e].RelayState)

\* A form built for a request whose relay state holds markup characters.
C4_Witness ==
    \E e \in Exch :
        /\ pc[e] = "Sent"
        /\ form[e].RelayState = <<97, 60, 98, 38, 34, 99, 34>>
        /\ InboundRelayStateIs(e, <<97, 60, 98, 38, 34, 99, 34>>)

\* The body of the form written in exchange e.
WrittenForm(e) ==
    LET i == CHOOSE i \in 1..Len(w[e]) : w[e][i].by = "idp" /\ w[e][i].op = "Write"
    IN  w[e][i].body

\* The redirect form with html-escaped values of action, SAMLResponse and
\* RelayState.
EscapedForm(action, samlResponse, relay) ==
    tplHead \o HTMLEscapeString(action)
    \o tplResp \o HTMLEscapeString(samlResponse) \o tplClose
    \o (IF relay # <<>> THEN tplRelayOpen \o HTMLEscapeString(relay) \o tplClose ELSE <<>>)
    \o tplTail

\* C5: every value substituted into the rendered form is HTML-escaped: the
\* document sent is the form with the escaped form action, SAMLResponse and
\* RelayState ('<' appears as &lt;).
C5_FormValuesEscaped ==
    \A e \in Exch :
        pc[e] = "Sent" =>
            WrittenForm(e) = EscapedForm(form[e].FormAction, form[e].SAMLResponse,
                                         form[e].RelayState)

\* Two aborted exchanges differ in the step that failed or in the error.
DifferentCauses(e1, e2) ==
    \/ err[e1] # err[e2]
    \/ calls[e1] # calls[e2]

\* Exchange e was aborted after authentication.
AbortedWithResponse(e) == pc[e] = "Aborted" /\ AuthSucceeded(e)

C7_MetadataFailureNoXML ==
    (mpc = "Aborted" \/ merr # NoErr) =>
        /\ mpc = "Aborted"
        /\ mw = << ErrorResponse >>
        /\ \A i \in 1..Len(mw) : mw[i].op \notin {"Header.Set", "Write"}

\* A metadata request aborted by the failure of the XML marshaling.
C7_Witness ==
    /\ mpc = "Aborted"
    /\ merr = "xml.UnsupportedTypeError"
    /\ metadata = Metadata(TheIdP)
    /\ Len(mw) = 1

\* C8: when ServeMetadata succeeds the body is the XML declaration and a
\* newline followed by the marshaled metadata and nothing else, and at
\* every moment the content type application/xml; charset=utf8 has been
\* set before any body byte is written.
C8_MetadataBody ==
    LET decl == <<60, 63, 120, 109, 108, 32, 118, 101, 114, 115, 105, 111, 110, 61, 34,
                  49, 46, 48, 34, 32, 101, 110, 99, 111, 100, 105, 110, 103, 61, 34,
                  85, 84, 70, 45, 56, 34, 63, 62, 10>>
        writes == SelectSeq(mw, LAMBDA ev : ev.op = "Write")
    IN  /\ mpc = "Sent" =>
              /\ Concat([i \in 1..Len(writes) |-> writes[i].body])
                    = decl \o MarshalIndent(MetadataElement(Metadata(m.idp)))
              /\ Len(mw) = 3
              /\ merr = NoErr
        /\ \A i \in 1..Len(mw) :
              mw[i].op = "Write" =>
                  /\ i > 1
                  /\ mw[1] = HeaderSet("idp", "Content-Type", "application/xml; charset=utf8")
        /\ Len(writes) >= 1 => writes[1].body = decl

\* A metadata response sent in full.
C8_Witness ==
    /\ mpc = "Sent"
    /\ Len(mw) = 3
    /\ mw[3].body = MarshalIndent(MetadataElement(Metadata(TheIdP)))
    /\ Contains(mw[3].body, <<10, 9, 60>>)

\* Exchange e was aborted at the given step: the calls made are those up
\* to that step, the log call and writeErr; the response of this package
\* is the error response; the identity provider was never called.
AbortedAt(e, stepsBefore, step) ==
    /\ pc[e] = "Aborted"
    /\ calls[e] = FailedAfter(stepsBefore, step)
    /\ Own(w[e]) = << ErrorResponse >>
    /\ idpAuthnRequest[e].Assertion = NoAssertion
    /\ idpAuthnRequest[e].Response = NoResponse

\* C9: an authenticated exchange with a malformed SAMLRequest fails at the
\* first decoding step the request violates: invalid base64 at the base64
\* step, base64 of bytes that are not a complete deflate stream at the
\* inflate step, base64 of deflated non-XML at the XML step; it is aborted
\* with the error response and the identity provider is not called.
C9_MalformedRequestFailsAtItsStep ==
    \A e \in Exch :
        (pc[e] \in {"Aborted", "Sent"} /\ AuthSucceeded(e)) =>
            LET sr == IF \E i \in 1..Len(req[e]) : req[e][i].key = "SAMLRequest"
                      THEN (CHOOSE p \in {req[e][i] : i \in 1..Len(req[e])} :
                                p.key = "SAMLRequest").value
                      ELSE <<>>
            IN  /\ sr = NotBase64 =>
                      /\ AbortedAt(e, <<>>, "base64.DecodeString")
                      /\ err[e] = "base64.CorruptInputError"
                /\ sr \in {EncodeToString(NotDeflate), EncodeToString(CutDeflate)} =>
                      /\ AbortedAt(e, <<"base64.DecodeString">>, "flate.ReadAll")
                      /\ err[e] \in {"flate.CorruptInputError", "unexpected EOF"}
                /\ sr \in {EncodeToString(StoredDeflate(NotXML)),
                           EncodeToString(StoredDeflate(CutXML))} =>
                      /\ AbortedAt(e, <<"base64.DecodeString", "flate.ReadAll">>,
                                   "xml.Unmarshal")
                      /\ err[e] \in {"EOF", "xml.SyntaxError"}

\* An authenticated exchange aborted by a truncated deflate stream.
C9_Witness ==
    \E e \in Exch :
        /\ AuthSucceeded(e)
        /\ samlRequest[e] = EncodeToString(CutDeflate)
        /\ data[e] = CutDeflate
        /\ err[e] = "unexpected EOF"
        /\ AbortedAt(e, <<"base64.DecodeString">>, "flate.ReadAll")

\* C10: an exchange in which every step succeeded has written exactly the
\* content type text/html and the form whose action is the recipient of
\* the assertion, whose SAMLResponse is the standard base64 of the
\* tab-indented XML of the response and whose RelayState is the inbound
\* relay state; it has written no error response.
C10_SuccessfulExchangeResponse ==
    \A e \in Exch :
        pc[e] = "Sent" =>
            LET ir     == idpAuthnRequest[e]
                action == ir.Assertion.Subject.SubjectConfirmation
                              .SubjectConfirmationData.Recipient
                doc    == MarshalIndent(ResponseElement(ir.Response))
                b64    == form[e].SAMLResponse
                relay  == form[e].RelayState
            IN  /\ Own(w[e]) =
                      << HeaderSet("idp", "Content-Type", "text/html"),
                         Write("idp",
                               tplHead \o action \o tplResp \o b64 \o tplClose
                               \o (IF relay # <<>> THEN tplRelayOpen \o relay \o tplClose
                                   ELSE <<>>)
                               \o tplTail) >>
                /\ action \in AcsURLs
                /\ InboundRelayStateIs(e, relay)
                /\ DecodeString(b64) = [err |-> NoErr, data |-> doc]
                /\ Len(b64) % 4 = 0
                /\ Contains(doc, <<10, 9, 60>>)
                /\ Count(calls[e], "writeErr") = 0
                /\ Count(w[e], ErrorResponse) = 0

\* An exchange that sent the form, with a relay state.
C10_Witness ==
    \E e \in Exch :
        /\ pc[e] = "Sent"
        /\ Len(Own(w[e])) = 2
        /\ form[e].FormAction = AcsURL
        /\ form[e].RelayState = RelayPlain
        /\ Contains(WrittenForm(e), tplRelayOpen \o RelayPlain \o tplClose)

\* C11: NewLoginRequest returns exactly one of two outcomes: when fetching
\* the SP metadata fails, a nil LoginRequest together with the fetch error
\* (which it logged); when it succeeds, a nil error and a LoginRequest that
\* holds exactly the given URL, the given authFn, the fetched metadata and
\* the middleware it was called on.
C11_LoginRequestOutcome ==
    lpc = "Returned" =>
        \/ /\ lerr # NoErr
           /\ lret.err = lerr
           /\ lret.lr = NilLoginRequest
           /\ llog = << [format |-> "Failed to get metadata: %v", arg |-> lerr] >>
        \/ /\ lerr = NoErr
           /\ lret.err = NoErr
           /\ lret.lr = [nil |-> FALSE, spMetadataURL |-> largs.spMetadataURL,
                         m |-> m, authFn |-> largs.authFn, metadata |-> lmetadata]
           /\ [err |-> NoErr, metadata |-> lmetadata]
                  \in GetMetadataResults(largs.spMetadataURL)
           /\ llog = <<>>

\* Both outcomes happen: here the fetch failed and nil was returned.
C11_Witness ==
    /\ lpc = "Returned"
    /\ lerr \in CollabErrs
    /\ lret.lr.nil
    /\ lret.err = lerr

\* Here the fetch succeeded and a LoginRequest was returned.
C11_WitnessSuccess ==
    /\ lpc = "Returned"
    /\ lret.err = NoErr
    /\ ~ lret.lr.nil
    /\ lret.lr.metadata # NoSPMetadata

\* C12: round trip of the inbound codec.  For every valid AuthnRequest
\* document d of CodecCases, the three decode steps of ServeSSO on the
\* request that carries base64(raw-deflate(d)) all succeed: base64 gives the
\* DEFLATE stream back, inflating gives d back (buf holds it until line 148
\* reuses buf), and parsing gives the AuthnRequest that d describes.
C12_CodecRoundTrip ==
    \A c \in CodecCases :
        (req[1] = c.req /\ AuthSucceeded(1)) =>
            /\ Count(calls[1], "base64.DecodeString") = 1 => data[1] = c.deflated
            /\ (Count(calls[1], "flate.ReadAll") = 1
                  /\ Count(calls[1], "xml.MarshalIndent") = 0) => buf[1] = c.doc
            /\ Count(calls[1], "xml.Unmarshal") = 1 =>
                  /\ authnRequest[1] = c.v
                  /\ idpAuthnRequest[1].Request = c.v
            /\ pc[1] = "Aborted" => Count(calls[1], "MakeAssertion") = 1

\* A document whose ID holds markup and quotes-free text was sent in two
\* blocks and has been parsed.
C12_Witness ==
    /\ req[1] = CodecCase(CodecIDMarkup, <<50, 46, 48>>, 3, 2).req
    /\ Count(calls[1], "xml.Unmarshal") = 1
    /\ authnRequest[1].ID = CodecIDMarkup
    /\ pc[1] = "MakeAssertion"

\* The calls of an exchange in the order of the handler: the hook, the
\* reading of the query, the three decode steps, the three collaborator
\* calls, the serialization of the Response, the rendering of the form and
\* the sending of it.
StepOrder ==
    << "authFn", "URL.Query", "base64.DecodeString", "flate.ReadAll", "xml.Unmarshal",
       "MakeAssertion", "MarshalAssertion", "MakeResponse", "xml.MarshalIndent",
       "template.Parse", "template.Execute", "Header.Set", "Write" >>

\* The steps exchange e has attempted, in order: its calls without those of
\* the failure path.
Steps(e) == SelectSeq(calls[e], LAMBDA c : c \notin {"saml.Logf", "writeErr"})

\* A step of exchange e has failed.
Failed(e) == Count(calls[e], "saml.Logf") >= 1

\* The steps attempted are the first steps of StepOrder, each once (none
\* skipped, repeated or reordered); a failure is the last thing that happens:
\* the failing step is followed by its log call and its error response and by
\* no other step, and the exchange is Aborted exactly when a step has failed.
InStepOrder(e) ==
    /\ Steps(e) = Take(StepOrder, Len(Steps(e)))
    /\ Len(Steps(e)) <= Len(StepOrder)
    /\ Failed(e) =>
          /\ pc[e] = "Aborted"
          /\ calls[e] \in { Steps(e) \o <<"saml.Logf">>,
                            Steps(e) \o <<"saml.Logf", "writeErr">> }
    /\ pc[e] = "Aborted" => Failed(e)
    /\ pc[e] = "Sent" => Steps(e) = StepOrder

\* C13 as stated: the steps run in the fixed order, a step is attempted only
\* if every earlier one succeeded, nothing follows the first failure, and
\* Aborted is reachable from every non-terminal state, so also from Rendered
\* (the form is rendered and not yet sent): some step from it leads elsewhere
\* than to Sent.
C13_AbortedReachableFromEveryState ==
    /\ InStepOrder(1)
    /\ pc[1] = "Write" => ENABLED (Next /\ pc'[1] \notin {"Write", "Sent"})

\* The steps with a failing branch: the hook, the decode steps, the
\* collaborator calls, the serialization and the rendering.
FallibleSteps ==
    { "authFn", "base64.DecodeString", "flate.ReadAll", "xml.Unmarshal", "MakeAssertion",
      "MarshalAssertion", "MakeResponse", "xml.MarshalIndent", "template.Parse",
      "template.Execute" }

\* C13 (amended): the steps run in the fixed order authenticate, decode
\* base64, inflate, parse, MakeAssertion, MarshalAssertion, MakeResponse,
\* serialize, render, send; a step is attempted only if every earlier one
\* succeeded and nothing follows the first failure.  Aborted is terminal and
\* is entered from the failure of one of the steps up to the rendering; once
\* the form is rendered the exchange is not aborted: it can only be sent.
C13_StepOrder ==
    /\ InStepOrder(1)
    /\ pc[1] = "Aborted" => Steps(1)[Len(Steps(1))] \in FallibleSteps
    /\ pc[1] = "Write" => ~ Failed(1) /\ Steps(1) = Take(StepOrder, 11)

\* An exchange failed at MakeResponse after its seven earlier steps.
C13_Witness ==
    /\ pc[1] = "Aborted"
    /\ Steps(1) = Take(StepOrder, 8)
    /\ calls[1] = Take(StepOrder, 8) \o <<"saml.Logf", "writeErr">>

\* The format of the log call on the failing branch of each step.
StepMessage(step) ==
    CASE step = "authFn"              -> "authFn: %v"
      [] step = "base64.DecodeString" -> "Failed to decode SAMLRequest: %v"
      [] step = "flate.ReadAll"       -> "Failed to read SAMLRequest: %v"
      [] step = "xml.Unmarshal"       -> "Failed to unmarshal SAMLRequest: %v"
      [] step = "MakeAssertion"       -> "Failed to make assertion: %v"
      [] step = "MarshalAssertion"    -> "Failed to marshal assertion: %v"
      [] step = "MakeResponse"        -> "Failed to build response: %v"
      [] step = "xml.MarshalIndent"   -> "Failed to format response: %v"
      [] step = "template.Parse"      -> "Failed to create form: %v"
      [] step = "template.Execute"    -> "Failed to build form: %v"
      [] OTHER                        -> ""

\* The position of the first x in q, 0 when q holds none.
IndexOf(q, x) ==
    IF \E i \in 1..Len(q) : q[i] = x
    THEN CHOOSE i \in 1..Len(q) : q[i] = x /\ \A k \in 1..(i - 1) : q[k] # x
    ELSE 0

\* C14: an exchange that is Aborted, by the failure of the hook or of any
\* later step, has emitted exactly one log event; its message is the one of
\* the step that failed (each step has its own) and it carries the error of
\* that step; the log call comes right after the failing step and before the
\* error response, if there is one.  An exchange that has not failed, and so
\* a successful one, has emitted no log event.
C14_OneLogPerFailure ==
    /\ pc[1] = "Aborted" =>
          /\ Len(log[1]) = 1
          /\ err[1] # NoErr
          /\ log[1][1] = [format |-> StepMessage(Steps(1)[Len(Steps(1))]), arg |-> err[1]]
          /\ log[1][1].format # ""
          /\ Count(calls[1], "saml.Logf") = 1
          /\ calls[1][IndexOf(calls[1], "saml.Logf") - 1] = Steps(1)[Len(Steps(1))]
          /\ Own(w[1]) # <<>> =>
                /\ Count(calls[1], "writeErr") = 1
                /\ IndexOf(calls[1], "saml.Logf") < IndexOf(calls[1], "writeErr")
    /\ pc[1] # "Aborted" =>
          /\ log[1] = <<>>
          /\ Count(calls[1], "saml.Logf") = 0
    /\ \A s1, s2 \in FallibleSteps : StepMessage(s1) = StepMessage(s2) => s1 = s2

\* The inflate step failed: one event with its message and its error, logged
\* before the error response.
C14_Witness ==
    /\ pc[1] = "Aborted"
    /\ log[1] = << [format |-> "Failed to read SAMLRequest: %v", arg |-> err[1]] >>
    /\ err[1] \in {"unexpected EOF", "flate.CorruptInputError"}
    /\ calls[1] = Take(StepOrder, 4) \o <<"saml.Logf", "writeErr">>

\* C15: with the hook and the collaborator calls returning, every exchange
\* that has started eventually is Sent or Aborted, and no step is retried:
\* each of authFn, the decode steps, MakeAssertion, MarshalAssertion,
\* MakeResponse, the serialization and the rendering is attempted at most
\* once in the exchange.
C15_TerminatesWithoutRetry ==
    /\ [](\A s \in FallibleSteps : Count(calls[1], s) <= 1)
    /\ (pc[1] # "idle") ~> (pc[1] \in {"Sent", "Aborted"})

\* An exchange was sent after each of its steps was attempted exactly once.
C15_Witness ==
    /\ pc[1] = "Sent"
    /\ \A s \in FallibleSteps : Count(calls[1], s) = 1
    /\ Len(calls[1]) = Len(StepOrder)

\* Everything exchange e owns: its request, its response writer, its log
\* events and the locals of its handler.
Local(e) ==
    << pc[e], req[e], w[e], log[e], calls[e], sess[e], err[e], relayState[e],
       samlRequest[e], data[e], buf[e], authnRequest[e], idpAuthnRequest[e],
       form[e], formTpl[e], formBuf[e] >>

\* Exchange e has called step.
Called(e, step) == Count(calls[e], step) >= 1

\* What exchange e holds is what its own request gives, as when it runs
\* alone: the parameters are those of its query, each decoded value comes
\* from its own previous value, its IdpAuthnRequest holds the shared
\* provider, its own HTTP request and its own AuthnRequest, and its form and
\* the document it sends are built from its own relay state, assertion and
\* response.
OwnState(e) ==
    /\ Called(e, "URL.Query") =>
          /\ relayState[e] = Get(req[e], "RelayState")
          /\ samlRequest[e] = Get(req[e], "SAMLRequest")
    /\ Called(e, "base64.DecodeString") => data[e] = DecodeString(samlRequest[e]).data
    /\ (Called(e, "flate.ReadAll") /\ ~ Called(e, "xml.MarshalIndent")) =>
          buf[e] = InflateBlocks(data[e]).buf
    /\ Called(e, "MakeAssertion") =>
          /\ idpAuthnRequest[e].IDP = m.idp
          /\ idpAuthnRequest[e].HTTPRequest = e
          /\ idpAuthnRequest[e].Request = authnRequest[e]
          /\ authnRequest[e] = Unmarshal(InflateBlocks(data[e]).buf).v
    /\ Called(e, "MarshalAssertion") =>
          idpAuthnRequest[e].Assertion.Subject.NameID = SessionUser(sess[e])
    /\ Called(e, "template.Execute") =>
          /\ form[e].RelayState = Get(req[e], "RelayState")
          /\ form[e].FormAction =
                idpAuthnRequest[e].Assertion.Subject.SubjectConfirmation
                    .SubjectConfirmationData.Recipient
          /\ form[e].SAMLResponse = EncodeToString(buf[e])
          /\ buf[e] = MarshalIndent(ResponseElement(idpAuthnRequest[e].Response))
          /\ idpAuthnRequest[e].Response.InResponseTo = authnRequest[e].ID
    /\ pc[e] = "Sent" =>
          /\ formBuf[e] = Execute(formTpl[e], form[e]).out
          /\ WrittenForm(e) = formBuf[e]
    /\ pc[e] = "idle" => Local(e) = << "idle", <<>>, <<>>, <<>>, <<>>, NoSession, NoErr, <<>>,
                                       <<>>, <<>>, <<>>, ZeroAuthnRequest,
                                       ZeroIdpAuthnRequest, NoForm, <<>>, <<>> >>

\* C16: concurrent exchanges served by the same handler do not interfere.
\* Under every interleaving each exchange holds its own relay state,
\* IdpAuthnRequest and form, all derived from its own request as when it runs
\* alone; the provider is the only thing the exchanges share and no step
\* changes it; and a step of one exchange changes nothing that another
\* exchange owns.
C16_NoInterference ==
    /\ [](\A e \in Exch : OwnState(e))
    /\ [][ /\ m' = m
           /\ \A e \in Exch : pc'[e] = pc[e] => Local(e)' = Local(e) ]_vars

\* Two interleaved exchanges with different requests were both sent, each
\* with its own relay state.
C16_Witness ==
    /\ pc[1] = "Sent" /\ pc[2] = "Sent"
    /\ form[1].RelayState = RelayMarkup
    /\ form[2].RelayState = RelayPlain
    /\ WrittenForm(1) # WrittenForm(2)
    /\ idpAuthnRequest[1].Request # idpAuthnRequest[2].Request

\* The steps that read or decode the parameters of the request.
ReadingSteps == {"URL.Query", "base64.DecodeString", "flate.ReadAll", "xml.Unmarshal"}

\* C17: the hook is called exactly once in an exchange and it is the first
\* call of the handler: nothing of the request is read or decoded before it.
\* So an exchange whose hook fails, whatever its SAMLRequest, takes the
\* authentication-failure path: it never reads or decodes SAMLRequest and it
\* gets no error response from the handler.
C17_AuthFirstAndOnce ==
    /\ Count(calls[1], "authFn") <= 1
    /\ calls[1] # <<>> => calls[1][1] = "authFn"
    /\ pc[1] \in {"Sent", "Aborted"} => Count(calls[1], "authFn") = 1
    /\ ~ Called(1, "URL.Query") =>
          relayState[1] = <<>> /\ samlRequest[1] = <<>> /\ data[1] = <<>> /\ buf[1] = <<>>
    /\ AuthFailed(1) =>
          /\ pc[1] = "Aborted"
          /\ calls[1] = <<"authFn", "saml.Logf">>
          /\ \A st \in ReadingSteps : ~ Called(1, st)
          /\ samlRequest[1] = <<>> /\ data[1] = <<>>
          /\ authnRequest[1] = ZeroAuthnRequest
          /\ Own(w[1]) = <<>>

\* An unauthenticated request whose SAMLRequest is not base64 ended on the
\* authentication-failure path.
C17_Witness ==
    /\ AuthFailed(1)
    /\ Get(req[1], "SAMLRequest") = NotBase64
    /\ DecodeString(Get(req[1], "SAMLRequest")).err # NoErr
    /\ pc[1] = "Aborted"
    /\ samlRequest[1] = <<>>

\* The query of exchange e has no SAMLRequest parameter, or an empty one:
\* values.Get("SAMLRequest") is "" in both cases.
NoSAMLRequest(e) ==
    \/ \A i \in 1..Len(req[e]) : req[e][i].key # "SAMLRequest"
    \/ \E i \in 1..Len(req[e]) :
          /\ req[e][i] = QV("SAMLRequest", <<>>)
          /\ \A j \in 1..(i - 1) : req[e][j].key # "SAMLRequest"

\* C18: in an authenticated exchange whose SAMLRequest parameter is missing
\* or empty, base64 decoding succeeds with empty data and the inflate step
\* fails on it (unexpected EOF): the exchange is aborted with one error
\* response, and neither xml.Unmarshal nor any call of the identity-provider
\* collaborator is reached.
C18_EmptyRequestFailsAtInflate ==
    (AuthSucceeded(1) /\ NoSAMLRequest(1)) =>
        /\ Called(1, "URL.Query") => samlRequest[1] = <<>>
        /\ Called(1, "base64.DecodeString") =>
              /\ data[1] = <<>>
              /\ DecodeString(samlRequest[1]) = [err |-> NoErr, data |-> <<>>]
              /\ Called(1, "flate.ReadAll") \/ pc[1] = "flate"
        /\ Called(1, "flate.ReadAll") =>
              /\ AbortedAt(1, <<"base64.DecodeString">>, "flate.ReadAll")
              /\ err[1] = "unexpected EOF"
        /\ pc[1] # "Sent"
        /\ \A st \in {"xml.Unmarshal", "MakeAssertion", "MarshalAssertion", "MakeResponse"} :
              ~ Called(1, st)
        /\ authnRequest[1] = ZeroAuthnRequest
        /\ idpAuthnRequest[1] = ZeroIdpAuthnRequest

\* A request without any SAMLRequest parameter was authenticated and failed
\* at the inflate step.
C18_Witness ==
    /\ AuthSucceeded(1)
    /\ \A i \in 1..Len(req[1]) : req[1][i].key # "SAMLRequest"
    /\ req[1] # <<>>
    /\ AbortedAt(1, <<"base64.DecodeString">>, "flate.ReadAll")
    /\ data[1] = <<>>

\* No operation of the Middleware has been called.
NothingCalled == pc[1] = "idle" /\ mpc = "idle" /\ lpc = "idle"

\* C19: NewMiddleware panics exactly when it is given a nil provider; a call
\* that panics returns no Middleware, so nothing is ever called on one.
\* Otherwise the Middleware holds exactly the provider given, which is not
\* nil, in every state, and no step of ServeMetadata, NewLoginRequest or
\* ServeSSO changes it.
C19_ProviderNeverNil ==
    /\ [](/\ ctor.panic <=> ctor.arg = NilIdP
          /\ ctor.panic => NothingCalled
          /\ ~ ctor.panic => m.idp = ctor.arg /\ m.idp # NilIdP)
    /\ [][m' = m /\ ctor' = ctor]_vars

\* The three operations have run to their end on the same Middleware, which
\* still holds the provider it was built with.
C19_Witness ==
    /\ ~ ctor.panic
    /\ pc[1] = "Sent"
    /\ mpc = "Sent"
    /\ lpc = "Returned" /\ ~ lret.lr.nil /\ lret.lr.m = m
    /\ m.idp = TheIdP
    /\ idpAuthnRequest[1].IDP = TheIdP

====
